---- MODULE Spec2Model ----
(***************************************************************************)
(* A model of the subtitle decoding core of subtile: the PGS (.sup)        *)
(* segment decoders (pgs/decoder.rs, pgs/pds.rs, pgs/ods.rs, pgs/sup.rs)   *)
(* and the VobSub end-time back-fill iterator (vobsub/sub.rs).             *)
(*                                                                         *)
(* Conventions.  An Option is a sequence of length 0 (None) or 1 (Some).   *)
(* A Result is a record [tag, val, err] with tag "Ok", "Err" or "Panic"    *)
(* ("Panic": the Rust code unwinds on a failed assertion, an out of range  *)
(* index or an arithmetic overflow).  Times of the PGS part are integer    *)
(* milliseconds (TimePoint); times of the VobSub part are seconds in the   *)
(* code (f64) and are counted here in milliseconds.                        *)
(***************************************************************************)
EXTENDS Integers, Sequences, FiniteSets, TLC

VARIABLES
    stream,    \* the .sup file: the sequence of segments written so far
    closed,    \* TRUE once the file is known to end after Len(stream) segments
    dto,       \* SupParser<DecodeTimeOnly>: reader position, parse_next locals, items
    dti,       \* SupParser<DecodeTimeImage>: reader position, parse_next locals, items
    call,      \* one call of a pure function: its name, arguments and result
    subs,      \* vobsub Subtitles iterator: internal items, prev, returned items
    pes,       \* mpeg2 PesPackets iterator: its input, remaining slice, returned items
    rle        \* pgs RlePixelIterator: its image, cursor state, returned pixels

pgsVars == <<stream, closed, dto, dti>>
vars == <<stream, closed, dto, dti, call, subs, pes, rle>>

----------------------------------------------------------------------------
(* Option and Result *)

None == <<>>
Some(x) == <<x>>
IsSome(o) == Len(o) = 1
IsNone(o) == Len(o) = 0
Unwrap(o) == o[1]

Ok(v) == [tag |-> "Ok", val |-> <<v>>, err |-> ""]
Err(e) == [tag |-> "Err", val |-> <<>>, err |-> e]
Panic(e) == [tag |-> "Panic", val |-> <<>>, err |-> e]
IsOk(r) == r.tag = "Ok"
OkVal(r) == r.val[1]

----------------------------------------------------------------------------
(* Bounds of the model *)

\* segments in a .sup stream
MaxSegs == 5
\* object data bytes declared by an ODS in the pure-function check
MaxData == 3

----------------------------------------------------------------------------
(* pgs/segment.rs *)

SegmentTypeCode == {"Pds", "Ods", "Pcs", "Wds", "End"}

\* SegmentHeader::presentation_time: milliseconds from the 90 kHz pts (u32 division)
presentation_time(pts) == pts \div 90

\* TimePoint::from_msecs(i64::from(..)) stores the milliseconds unchanged
from_msecs(t) == t

\* TimeSpan::new
TimeSpan(s, e) == [start |-> s, end |-> e]

----------------------------------------------------------------------------
(* pgs/pds.rs *)

\* PaletteEntry read at the 0-based offset of pds_buf
PaletteEntry(pds_buf, offset) ==
    [palette_entry_id |-> pds_buf[offset + 1],
     luminance |-> pds_buf[offset + 2],
     color_difference_red |-> pds_buf[offset + 3],
     color_difference_blue |-> pds_buf[offset + 4],
     transparency |-> pds_buf[offset + 5]]

compute_offset(palette) ==
    IF Len(palette) = 0 THEN 0 ELSE 0 - palette[1].palette_entry_id

\* Palette::new
Palette_new(entries) == [entries |-> entries, offset |-> compute_offset(entries)]

\* pds::read(reader, segments_size); bytes: what the stream still holds at the
\* start of the segment body.
pds_read(segments_size, bytes) ==
    IF Len(bytes) < segments_size THEN Err("PDSParse.BufferParse")
    ELSE IF segments_size < 1 THEN Panic("pds_buf[0]: index out of bounds")
    ELSE IF segments_size < 2 THEN Panic("pds_buf[1]: index out of bounds")
    ELSE LET nb_palette_entry == (segments_size - 2) \div 5 IN
         IF (nb_palette_entry * 5) + 2 # segments_size
         THEN Panic("assert_eq!((nb_palette_entry * 5) + 2, segments_size)")
         ELSE Ok([palette_id |-> bytes[1],
                  palette_version_number |-> bytes[2],
                  palette |-> Palette_new([idx \in 1..nb_palette_entry |->
                                            PaletteEntry(bytes, 2 + ((idx - 1) * 5))])])

----------------------------------------------------------------------------
(* pgs/ods.rs, pgs/u24.rs *)

Last == 64
First == 128
FirstAndLast == 192

\* u24::to_u32 of the big-endian bytes a, b, c
u24_to_u32(a, b, c) == (a * 65536) + (b * 256) + c

\* u16::from_be_bytes
u16_from_be_bytes(a, b) == (a * 256) + b

\* ObjectDefinitionSegment::Partial and ::Complete
Partial(data, amount_of_data_read) ==
    [kind |-> "Partial", data |-> data, amount_of_data_read |-> amount_of_data_read]
Complete(data) ==
    [kind |-> "Complete", data |-> data, amount_of_data_read |-> 0]

\* A mutation of ods_read_none: the length of a FirstAndLast object is not
\* compared with what the segment holds.
ods_read_none_size_not_asserted(segments_size, bytes, last_in_sequence_flag) ==
    IF last_in_sequence_flag \notin {First, FirstAndLast}
    THEN Panic("assert!(flag == First || flag == FirstAndLast)")
    ELSE IF Len(bytes) < 7 THEN Err("ODSParse.ReadObjectDataLength")
    ELSE IF Len(bytes) < 9 THEN Err("ODSParse.ReadWidth")
    ELSE IF Len(bytes) < 11 THEN Err("ODSParse.ReadHeight")
    ELSE LET object_data_length == u24_to_u32(bytes[5], bytes[6], bytes[7])
             width == u16_from_be_bytes(bytes[8], bytes[9])
             height == u16_from_be_bytes(bytes[10], bytes[11])
         IN
         IF object_data_length < 4 THEN Panic("data_size - 4: overflow")
         ELSE IF segments_size < 11 THEN Panic("segments_size - 11: overflow")
         ELSE LET data_size == object_data_length - 4
                  read_data_size == segments_size - 11
              IN
              IF read_data_size > data_size
              THEN Panic("object_data[0..read_data_size]: out of range")
              ELSE IF Len(bytes) < 11 + read_data_size THEN Err("ODSParse.ObjectData")
              ELSE LET data == [width |-> width,
                                height |-> height,
                                object_data |-> [i \in 1..data_size |->
                                    IF i <= read_data_size THEN bytes[11 + i] ELSE 0]]
                   IN
                   IF last_in_sequence_flag = FirstAndLast
                   THEN Ok(Complete(data))
                   ELSE IF last_in_sequence_flag = First
                   THEN Ok(Partial(data, read_data_size))
                   ELSE Err("ODSParse.LastInSequenceFlagNotManaged")

\* ods::read, current_ods = None
ods_read_none(segments_size, bytes, last_in_sequence_flag) ==
    IF last_in_sequence_flag \notin {First, FirstAndLast}
    THEN Panic("assert!(flag == First || flag == FirstAndLast)")
    ELSE IF Len(bytes) < 7 THEN Err("ODSParse.ReadObjectDataLength")
    ELSE IF Len(bytes) < 9 THEN Err("ODSParse.ReadWidth")
    ELSE IF Len(bytes) < 11 THEN Err("ODSParse.ReadHeight")
    ELSE LET object_data_length == u24_to_u32(bytes[5], bytes[6], bytes[7])
             width == u16_from_be_bytes(bytes[8], bytes[9])
             height == u16_from_be_bytes(bytes[10], bytes[11])
         IN
         IF object_data_length < 4 THEN Panic("data_size - 4: overflow")
         ELSE IF segments_size < 11 THEN Panic("segments_size - 11: overflow")
         ELSE LET data_size == object_data_length - 4
                  read_data_size == segments_size - 11
              IN
              IF read_data_size > data_size
              THEN Panic("object_data[0..read_data_size]: out of range")
              ELSE IF Len(bytes) < 11 + read_data_size THEN Err("ODSParse.ObjectData")
              ELSE LET data == [width |-> width,
                                height |-> height,
                                object_data |-> [i \in 1..data_size |->
                                    IF i <= read_data_size THEN bytes[11 + i] ELSE 0]]
                   IN
                   IF last_in_sequence_flag = FirstAndLast
                   THEN IF read_data_size # data_size
                        THEN Panic("assert!(read_data_size == data_size)")
                        ELSE Ok(Complete(data))
                   ELSE IF last_in_sequence_flag = First
                   THEN Ok(Partial(data, read_data_size))
                   ELSE Err("ODSParse.LastInSequenceFlagNotManaged")

\* A mutation of ods_read_partial: the bytes of the segment are written at
\* the start of the object data, over those of the First segment.
ods_read_partial_from_start(segments_size, bytes, last_in_sequence_flag, data, amount_of_data_read) ==
    IF last_in_sequence_flag # Last THEN Panic("assert!(flag == Last)")
    ELSE IF segments_size < 4 THEN Panic("segments_size - 4: overflow")
    ELSE LET start_idx == 0
             end_idx == start_idx + (segments_size - 4)
         IN
         IF end_idx > Len(data.object_data)
         THEN Panic("object_data[start_idx..end_idx]: out of range")
         ELSE IF Len(bytes) < 4 + (segments_size - 4) THEN Err("ODSParse.ObjectData")
         ELSE Ok(Complete([data EXCEPT !.object_data =
                    [i \in 1..Len(data.object_data) |->
                        IF start_idx < i /\ i <= end_idx
                        THEN bytes[4 + (i - start_idx)]
                        ELSE data.object_data[i]]]))

\* ods::read, current_ods = Some(Partial { data, amount_of_data_read })
ods_read_partial(segments_size, bytes, last_in_sequence_flag, data, amount_of_data_read) ==
    IF last_in_sequence_flag # Last THEN Panic("assert!(flag == Last)")
    ELSE IF segments_size < 4 THEN Panic("segments_size - 4: overflow")
    ELSE LET start_idx == amount_of_data_read
             end_idx == start_idx + (segments_size - 4)
         IN
         IF end_idx > Len(data.object_data)
         THEN Panic("object_data[start_idx..end_idx]: out of range")
         ELSE IF Len(bytes) < 4 + (segments_size - 4) THEN Err("ODSParse.ObjectData")
         ELSE Ok(Complete([data EXCEPT !.object_data =
                    [i \in 1..Len(data.object_data) |->
                        IF start_idx < i /\ i <= end_idx
                        THEN bytes[4 + (i - start_idx)]
                        ELSE data.object_data[i]]]))

\* ods::read(reader, segments_size, current_ods); bytes: what the stream still
\* holds at the start of the segment body.
ods_read(segments_size, bytes, current_ods) ==
    IF Len(bytes) < 4 THEN Err("ODSParse.LastInSequenceFlagReadData")
    ELSE LET last_in_sequence_flag == bytes[4] IN
         IF last_in_sequence_flag \notin {Last, First, FirstAndLast}
         THEN Err("ODSParse.LastInSequenceFlagInvalidValue")
         ELSE IF IsNone(current_ods)
         THEN ods_read_none(segments_size, bytes, last_in_sequence_flag)
         ELSE IF Unwrap(current_ods).kind = "Partial"
         THEN ods_read_partial(segments_size, bytes, last_in_sequence_flag,
                               Unwrap(current_ods).data,
                               Unwrap(current_ods).amount_of_data_read)
         ELSE Panic("read shouln'd be called with a Complete ObjectDefinitionSegment")

\* The body of an ODS that opens an object: object id and version, flag,
\* object data length, width, height, data.
OdsBody(flag, object_data_length, width, height, data) ==
    <<0, 0, 0, flag,
      object_data_length \div 65536, (object_data_length \div 256) % 256,
      object_data_length % 256,
      width \div 256, width % 256, height \div 256, height % 256>> \o data

\* The body of an ODS that continues an object: object id and version, flag, data.
OdsContinuation(flag, data) == <<0, 0, 0, flag>> \o data

----------------------------------------------------------------------------
(* The .sup stream read by SupParser *)

\* A segment of the file: the fields of its header and the bytes of its body
\* that the file holds (fewer than size when the file ends inside the body).
Segment(type, pts, size, bytes) ==
    [type |-> type, pts |-> pts, size |-> size, bytes |-> bytes]

\* pts values of the END segments: 0 ms, 1 ms and 2 ms after the division
EndPts == {89, 90, 200}
\* pts of the other segments: 5 ms
OtherPts == 450

EndSegments == {Segment("End", pts, 0, <<>>) : pts \in EndPts}
SkippedSegments == {Segment("Pcs", OtherPts, 0, <<>>), Segment("Wds", OtherPts, 0, <<>>)}
PdsSegments ==
    {Segment("Pds", OtherPts, 2, <<0, 0>>),
     Segment("Pds", OtherPts, 7, <<1, 0, 3, 16, 17, 18, 255>>),
     \* a size that is not 2 + 5n
     Segment("Pds", OtherPts, 3, <<0, 0, 0>>),
     \* the file ends inside the palette
     Segment("Pds", OtherPts, 7, <<1, 0, 3>>)}
OdsSegments ==
    {Segment("Ods", OtherPts, 12, OdsBody(FirstAndLast, 5, 1, 1, <<7>>)),
     Segment("Ods", OtherPts, 12, OdsBody(First, 6, 2, 1, <<7>>)),
     Segment("Ods", OtherPts, 5, OdsContinuation(Last, <<8>>))}
Segments == EndSegments \cup SkippedSegments \cup PdsSegments \cup OdsSegments

\* read_header at reader position pos (segments already consumed) returns the
\* header of seg: the next segment of the file, which is written now when
\* the reader is the first to get there.
HeaderAt(pos, seg) ==
    IF pos < Len(stream)
    THEN /\ seg = stream[pos + 1]
         /\ UNCHANGED <<stream, closed>>
    ELSE /\ ~closed
         /\ Len(stream) < MaxSegs
         /\ stream' = Append(stream, seg)
         /\ closed' = (Len(seg.bytes) < seg.size)

\* read_header at reader position pos meets the end of the file:
\* read_exact fails with UnexpectedEof and read_header returns Ok(None).
EofAt(pos) ==
    /\ pos = Len(stream)
    /\ closed' = TRUE
    /\ UNCHANGED stream

----------------------------------------------------------------------------
(* pgs/decoder.rs DecodeTimeOnly, driven by SupParser::next *)

DtoIdle == [pos |-> 0, pc |-> "idle", start_time |-> None, subtitle |-> None, out |-> <<>>]

\* SupParser::next calls DecodeTimeOnly::parse_next: fresh locals
TO_Call ==
    /\ dto.pc = "idle"
    /\ dto' = [dto EXCEPT !.pc = "loop", !.start_time = None, !.subtitle = None]
    /\ UNCHANGED <<stream, closed, dti, call, subs, pes, rle>>

\* A mutation of TO_HandleEnd: the first END of a pair is also taken as its end.
TO_HandleEnd_no_pairing(d, seg) ==
    LET time == from_msecs(presentation_time(seg.pts)) IN
    [d EXCEPT !.pos = @ + 1, !.pc = "idle", !.start_time = None, !.subtitle = None,
              !.out = Append(@, Ok(TimeSpan(time, time)))]

\* SegmentTypeCode::End in DecodeTimeOnly::parse_next; with the subtitle set
\* the loop ends and parse_next returns it, SupParser::next yields Some(Ok(..)).
TO_HandleEnd(d, seg) ==
    LET time == from_msecs(presentation_time(seg.pts)) IN
    IF IsSome(d.start_time)
    THEN [d EXCEPT !.pos = @ + 1, !.pc = "idle", !.start_time = None, !.subtitle = None,
                   !.out = Append(@, Ok(TimeSpan(Unwrap(d.start_time), time)))]
    ELSE [d EXCEPT !.pos = @ + 1, !.start_time = Some(time)]

TO_End ==
    /\ dto.pc = "loop"
    /\ \E seg \in EndSegments :
         /\ HeaderAt(dto.pos, seg)
         /\ dto' = TO_HandleEnd(dto, seg)
    /\ UNCHANGED <<dti, call, subs, pes, rle>>

\* Pds, Ods, Pcs, Wds: skip_segment
TO_Skip ==
    /\ dto.pc = "loop"
    /\ \E seg \in Segments \ EndSegments :
         /\ HeaderAt(dto.pos, seg)
         /\ dto' = [dto EXCEPT !.pos = @ + 1]
    /\ UNCHANGED <<dti, call, subs, pes, rle>>

\* read_header returns None: parse_next returns Ok(None), the iterator None
TO_Eof ==
    /\ dto.pc = "loop"
    /\ EofAt(dto.pos)
    /\ dto' = [dto EXCEPT !.pc = "ended", !.start_time = None]
    /\ UNCHANGED <<dti, call, subs, pes, rle>>

----------------------------------------------------------------------------
(* pgs/decoder.rs DecodeTimeImage, driven by SupParser::next *)

DtiIdle ==
    [pos |-> 0, pc |-> "idle", start_time |-> None, subtitle |-> None, palette |-> None,
     image |-> None, prev_ods |-> None, out |-> <<>>, panic |-> ""]

\* RleEncodedImage::new
RleEncodedImage_new(width, height, palette, raw) ==
    [width |-> width, height |-> height, palette |-> palette, raw |-> raw]

\* parse_next returns through `?`: the iterator yields Some(Err(e))
TI_Return_Err(d, e) ==
    [d EXCEPT !.pc = "idle", !.start_time = None, !.subtitle = None, !.palette = None,
              !.image = None, !.prev_ods = None, !.out = Append(@, Err(e))]

\* the thread unwinds
TI_Panic(d, msg) ==
    [d EXCEPT !.pc = "panic", !.start_time = None, !.subtitle = None, !.palette = None,
              !.image = None, !.prev_ods = None, !.panic = msg]

\* The end of parse_next once the loop is left: the two assertions, then
\* Ok(subtitle), which SupParser::next transposes.
TI_Exit(d) ==
    IF IsSome(d.palette) THEN TI_Panic(d, "assert!(palette.is_none())")
    ELSE IF IsSome(d.prev_ods) THEN TI_Panic(d, "assert!(prev_ods.is_none())")
    ELSE IF IsSome(d.subtitle)
    THEN [d EXCEPT !.pc = "idle", !.start_time = None, !.subtitle = None,
                   !.image = None, !.out = Append(@, Ok(Unwrap(d.subtitle)))]
    ELSE [d EXCEPT !.pc = "ended", !.start_time = None, !.image = None]

TI_Call ==
    /\ dti.pc = "idle"
    /\ dti' = [dti EXCEPT !.pc = "loop", !.start_time = None, !.subtitle = None,
                          !.palette = None, !.image = None, !.prev_ods = None]
    /\ UNCHANGED <<stream, closed, dto, call, subs, pes, rle>>

\* SegmentTypeCode::Pds
TI_HandlePds(d, seg) ==
    LET pds == pds_read(seg.size, seg.bytes) IN
    IF pds.tag = "Panic" THEN TI_Panic([d EXCEPT !.pos = @ + 1], pds.err)
    ELSE IF pds.tag = "Err" THEN TI_Return_Err([d EXCEPT !.pos = @ + 1], pds.err)
    ELSE [d EXCEPT !.pos = @ + 1, !.palette = Some(OkVal(pds).palette)]

TI_Pds ==
    /\ dti.pc = "loop"
    /\ \E seg \in PdsSegments :
         /\ HeaderAt(dti.pos, seg)
         /\ dti' = TI_HandlePds(dti, seg)
    /\ UNCHANGED <<dto, call, subs, pes, rle>>

\* SegmentTypeCode::Ods; prev_ods.take() leaves prev_ods None
TI_HandleOds(d, seg) ==
    LET ods == ods_read(seg.size, seg.bytes, d.prev_ods)
        taken == [d EXCEPT !.pos = @ + 1, !.prev_ods = None]
    IN
    IF ods.tag = "Panic" THEN TI_Panic(taken, ods.err)
    ELSE IF ods.tag = "Err" THEN TI_Return_Err(taken, ods.err)
    ELSE IF OkVal(ods).kind = "Complete"
    THEN IF IsNone(d.palette) THEN TI_Return_Err(taken, "MissingPalette")
         ELSE [taken EXCEPT !.palette = None,
                            !.image = Some(RleEncodedImage_new(
                                OkVal(ods).data.width, OkVal(ods).data.height,
                                Unwrap(d.palette), OkVal(ods).data.object_data))]
    ELSE [taken EXCEPT !.prev_ods = Some(OkVal(ods))]

TI_Ods ==
    /\ dti.pc = "loop"
    /\ \E seg \in OdsSegments :
         /\ HeaderAt(dti.pos, seg)
         /\ dti' = TI_HandleOds(dti, seg)
    /\ UNCHANGED <<dto, call, subs, pes, rle>>

\* SegmentTypeCode::End; a composed subtitle ends the loop
TI_HandleEnd(d, seg) ==
    LET time == from_msecs(presentation_time(seg.pts))
        read == [d EXCEPT !.pos = @ + 1]
    IN
    IF IsSome(d.start_time)
    THEN LET times == TimeSpan(Unwrap(d.start_time), time) IN
         IF IsSome(d.image)
         THEN TI_Exit([read EXCEPT !.image = None,
                          !.subtitle = Some([times |-> times, image |-> Unwrap(d.image)])])
         ELSE IF IsNone(d.palette) THEN TI_Return_Err(read, "MissingPalette")
         ELSE TI_Exit([read EXCEPT !.palette = None,
                          !.subtitle = Some([times |-> times,
                              image |-> RleEncodedImage_new(0, 0, Unwrap(d.palette), <<>>)])])
    ELSE [read EXCEPT !.start_time = Some(time)]

TI_End ==
    /\ dti.pc = "loop"
    /\ \E seg \in EndSegments :
         /\ HeaderAt(dti.pos, seg)
         /\ dti' = TI_HandleEnd(dti, seg)
    /\ UNCHANGED <<dto, call, subs, pes, rle>>

\* SegmentTypeCode::Pcs | SegmentTypeCode::Wds: skip_segment
TI_Skip ==
    /\ dti.pc = "loop"
    /\ \E seg \in SkippedSegments :
         /\ HeaderAt(dti.pos, seg)
         /\ dti' = [dti EXCEPT !.pos = @ + 1]
    /\ UNCHANGED <<dto, call, subs, pes, rle>>

\* read_header returns None: the loop is left with no subtitle
TI_Eof ==
    /\ dti.pc = "loop"
    /\ EofAt(dti.pos)
    /\ dti' = TI_Exit(dti)
    /\ UNCHANGED <<dto, call, subs, pes, rle>>

----------------------------------------------------------------------------
(* Specifications of the PGS decoders *)

CallIdle ==
    [op |-> "none", args |-> <<>>, result |-> [tag |-> "Pending", val |-> <<>>, err |-> ""]]
SubsIdle == [items |-> <<>>, ended |-> FALSE, prev |-> None, out |-> <<>>, done |-> FALSE]
\* no PesPackets iterator and no RlePixelIterator
PesIdle == [input |-> <<>>, packets |-> <<>>, remaining |-> <<>>, out |-> <<>>, done |-> TRUE]
RleIdle ==
    [image |-> <<>>, overflow_checks |-> FALSE, raw_data |-> <<>>, current_color |-> <<0, 255>>,
     default_color |-> <<255, 0>>, nb_remaining_pixels |-> 0, out |-> <<>>, done |-> TRUE,
     panic |-> ""]

InitPgs ==
    /\ stream = <<>>
    /\ closed = FALSE
    /\ dto = DtoIdle
    /\ dti = DtiIdle
    /\ call = CallIdle
    /\ subs = SubsIdle
    /\ pes = PesIdle
    /\ rle = RleIdle

NextTimeOnly == TO_Call \/ TO_End \/ TO_Skip \/ TO_Eof
SpecTimeOnly == InitPgs /\ [][NextTimeOnly]_vars

NextTimeImage == TI_Call \/ TI_Pds \/ TI_Ods \/ TI_End \/ TI_Skip \/ TI_Eof
SpecTimeImage == InitPgs /\ [][NextTimeImage]_vars

----------------------------------------------------------------------------
(* Properties of DecodeTimeOnly *)

IsEnd(seg) == seg.type = "End"

\* the END segments the TimeOnly reader has consumed, in stream order
EndsReadByTimeOnly == SelectSeq(SubSeq(stream, 1, dto.pos), IsEnd)

\* C1: the k-th item of SupParser<DecodeTimeOnly> is the TimeSpan of the
\* (2k-1)-th and the 2k-th END segment of the stream, each time being
\* floor(pts / 90) ms; the other segments change nothing and an unpaired
\* final END emits nothing (so the items number half the ENDs, rounded down).
C1_TimeOnlyPairsEnds ==
    /\ Len(dto.out) = Len(EndsReadByTimeOnly) \div 2
    /\ \A k \in 1..Len(dto.out) :
         dto.out[k] = Ok(TimeSpan(EndsReadByTimeOnly[(2 * k) - 1].pts \div 90,
                                  EndsReadByTimeOnly[2 * k].pts \div 90))

\* C1 witness: the iteration ended on a stream of three ENDs with skipped
\* segments among them: one item, of distinct times, and an unpaired END.
C1_Witness ==
    /\ dto.pc = "ended"
    /\ Len(dto.out) = 1
    /\ Len(EndsReadByTimeOnly) = 3
    /\ \E i \in 1..Len(stream) : stream[i].type \in {"Pds", "Ods"}
    /\ OkVal(dto.out[1]).start # OkVal(dto.out[1]).end

\* C2: every TimeSpan DecodeTimeOnly emits has start <= end, whatever the
\* pts of the END segments.
C2_TimeOnlyStartLeEnd ==
    \A k \in 1..Len(dto.out) : OkVal(dto.out[k]).start <= OkVal(dto.out[k]).end

----------------------------------------------------------------------------
(* Properties of DecodeTimeImage *)

\* the step of parse_next that reads the closing (second) END of a display
\* set while no ODS has completed an image
TI_ClosingEndWithoutImage ==
    /\ dti.pc = "loop"
    /\ IsSome(dti.start_time)
    /\ IsNone(dti.image)
    /\ dti'.pos = dti.pos + 1
    /\ stream'[dti'.pos].type = "End"

\* C3: a display set whose closing END arrives with no completed image makes
\* the item of that call Err(MissingImage), and the parser goes on with the
\* segments after it.
C3_MissingImageReported ==
    [][TI_ClosingEndWithoutImage =>
          /\ dti'.out = Append(dti.out, Err("MissingImage"))
          /\ dti'.pc = "idle"]_vars

\* C4: a closing END met with a retained palette and no completed image makes
\* parse_next return Ok with the TimeSpan of the two ENDs and a 0x0 image of
\* empty raw data that carries the palette.
C4_EmptyImageCarriesPalette ==
    [][(TI_ClosingEndWithoutImage /\ IsSome(dti.palette)) =>
          dti'.out = Append(dti.out,
              Ok([times |-> TimeSpan(Unwrap(dti.start_time),
                                     stream'[dti'.pos].pts \div 90),
                  image |-> [width |-> 0, height |-> 0,
                             palette |-> Unwrap(dti.palette), raw |-> <<>>]]))]_vars

\* C5: whenever parse_next reaches its exit, the retained palette and the
\* pending partial ODS are both None: neither exit assertion fails.
C5_ExitAssertionsHold ==
    dti.panic \notin {"assert!(palette.is_none())", "assert!(prev_ods.is_none())"}

----------------------------------------------------------------------------
(* pds::read and ods::read called on their own *)

\* bytes of a palette segment body in the pure-function check
MaxPdsSize == 8

PdsReadArgs ==
    {[segments_size |-> n, bytes |-> [i \in 1..m |-> i]] :
        n \in 0..MaxPdsSize, m \in 0..MaxPdsSize}

\* The bytes the stream holds: a prefix of a body that opens an object or of
\* one that continues it, for every flag byte (0: not a flag) and every
\* declared object data length.
OdsStreams ==
    LET data == [i \in 1..MaxData |-> i]
        bodies == {OdsBody(flag, len, 1, 1, data) :
                      flag \in {Last, First, FirstAndLast, 0}, len \in 0..(4 + MaxData)}
                  \cup {OdsContinuation(flag, data) : flag \in {Last, First, FirstAndLast}}
    IN UNION {{SubSeq(b, 1, m) : m \in 0..Len(b)} : b \in bodies}

\* The object pending from an earlier First fragment
PendingOds ==
    {None, Some(Complete([width |-> 1, height |-> 1, object_data |-> <<9>>]))}
    \cup {Some(Partial([width |-> 1, height |-> 1,
                        object_data |-> [i \in 1..n |-> IF i <= a THEN 9 ELSE 0]], a)) :
             n \in 0..MaxData, a \in 0..MaxData}

OdsReadArgs ==
    {[segments_size |-> n, bytes |-> b, current_ods |-> c] :
        n \in 0..(11 + MaxData), b \in OdsStreams, c \in PendingOds}

Pending == [tag |-> "Pending", val |-> <<>>, err |-> ""]

InitRead ==
    /\ stream = <<>>
    /\ closed = FALSE
    /\ dto = DtoIdle
    /\ dti = DtiIdle
    /\ subs = SubsIdle
    /\ pes = PesIdle
    /\ rle = RleIdle
    /\ \/ \E a \in PdsReadArgs : call = [op |-> "pds::read", args |-> a, result |-> Pending]
       \/ \E a \in OdsReadArgs : call = [op |-> "ods::read", args |-> a, result |-> Pending]

Call_pds_read ==
    /\ call.op = "pds::read"
    /\ call.result.tag = "Pending"
    /\ call' = [call EXCEPT !.result = pds_read(call.args.segments_size, call.args.bytes)]
    /\ UNCHANGED <<stream, closed, dto, dti, subs, pes, rle>>

Call_ods_read ==
    /\ call.op = "ods::read"
    /\ call.result.tag = "Pending"
    /\ call' = [call EXCEPT !.result = ods_read(call.args.segments_size, call.args.bytes,
                                                call.args.current_ods)]
    /\ UNCHANGED <<stream, closed, dto, dti, subs, pes, rle>>

NextRead == Call_pds_read \/ Call_ods_read
SpecRead == InitRead /\ [][NextRead]_vars

\* C6: pds::read and ods::read return Ok or Err and never panic, for every
\* declared segment size and every declared object data length.
C6_ReadReturnsOkOrErr == call.result.tag \in {"Pending", "Ok", "Err"}

\* the object data length that the body of an ODS that opens an object declares
DeclaredLength(bytes) == u24_to_u32(bytes[5], bytes[6], bytes[7])

\* an ods::read call on a body flagged FirstAndLast whose segment size is
\* not 11 + (object data length - 4)
IsMismatchedFirstAndLast ==
    /\ call.op = "ods::read"
    /\ Len(call.args.bytes) >= 7
    /\ call.args.bytes[4] = FirstAndLast
    /\ call.args.segments_size # 11 + (DeclaredLength(call.args.bytes) - 4)

\* C19: ods::read on a segment flagged FirstAndLast whose segment size
\* differs from 11 + (object data length - 4), larger or smaller, fails: it
\* returns no object, Complete or other.
C19_FirstAndLastSizeEnforced ==
    IsMismatchedFirstAndLast => call.result.tag # "Ok"

\* C19 witness: a FirstAndLast body that declares 3 bytes of object data was
\* read, whole, with a segment size that covers 2 of them, and the call
\* failed.
C19_Witness ==
    /\ IsMismatchedFirstAndLast
    /\ IsNone(call.args.current_ods)
    /\ DeclaredLength(call.args.bytes) = 7
    /\ call.args.segments_size = 13
    /\ Len(call.args.bytes) = 14
    /\ call.result.tag \in {"Err", "Panic"}

\* an ods::read call whose flag byte is readable and which pairs no pending
\* object with Last, or a pending Partial object with First or FirstAndLast
IsUnmanagedCombination ==
    /\ call.op = "ods::read"
    /\ Len(call.args.bytes) >= 4
    /\ \/ /\ IsNone(call.args.current_ods)
          /\ call.args.bytes[4] = Last
       \/ /\ IsSome(call.args.current_ods)
          /\ Unwrap(call.args.current_ods).kind = "Partial"
          /\ call.args.bytes[4] \in {First, FirstAndLast}

\* C24: ods::read called with no pending object and a segment flagged Last,
\* or with a pending Partial object and a segment flagged First or
\* FirstAndLast, returns Err(LastInSequenceFlagNotManaged) and no object.
C24_UnmanagedFlagIsNotManagedError ==
    (IsUnmanagedCombination /\ call.result.tag # "Pending")
        => call.result = Err("ODSParse.LastInSequenceFlagNotManaged")

----------------------------------------------------------------------------
(* ods::read called twice, as DecodeTimeImage::parse_next does: on a First
   segment with no pending object, then on a Last segment with what the
   first call returned *)

\* payload bytes of the First segment (11, 12, ..) and of the Last (21, 22, ..)
FirstPayload(n) == [i \in 1..n |-> 10 + i]
LastPayload(n) == [i \in 1..n |-> 20 + i]

\* A First segment whose object data length declares n payload bytes and
\* which holds p1 of them, and a Last segment that holds p2 bytes.
OdsPairs ==
    {[first |-> [segments_size |-> 11 + p1,
                 bytes |-> OdsBody(First, 4 + n, w, h, FirstPayload(p1))],
      last |-> [segments_size |-> 4 + p2,
                bytes |-> OdsContinuation(Last, LastPayload(p2))]] :
        n \in 0..(MaxData + 1), p1 \in 0..MaxData, p2 \in 0..MaxData,
        w \in {1, 2}, h \in {1, 3}}

InitOdsPair ==
    /\ stream = <<>>
    /\ closed = FALSE
    /\ dto = DtoIdle
    /\ dti = DtiIdle
    /\ subs = SubsIdle
    /\ pes = PesIdle
    /\ rle = RleIdle
    /\ \E a \in OdsPairs :
          call = [op |-> "ods::read First", args |-> a, result |-> Pending]

\* ods::read(reader, seg_size, None) on the First segment
Call_ods_read_first ==
    /\ call.op = "ods::read First"
    /\ call.result.tag = "Pending"
    /\ call' = [call EXCEPT !.result = ods_read(call.args.first.segments_size,
                                                call.args.first.bytes, None)]
    /\ UNCHANGED <<stream, closed, dto, dti, subs, pes, rle>>

\* prev_ods = Some(ods), then ods::read(reader, seg_size, prev_ods.take())
\* on the Last segment
Call_ods_read_last ==
    /\ call.op = "ods::read First"
    /\ IsOk(call.result)
    /\ OkVal(call.result).kind = "Partial"
    /\ call' = [op |-> "ods::read Last", args |-> call.args,
                result |-> ods_read(call.args.last.segments_size,
                                    call.args.last.bytes, Some(OkVal(call.result)))]
    /\ UNCHANGED <<stream, closed, dto, dti, subs, pes, rle>>

NextOdsPair == Call_ods_read_first \/ Call_ods_read_last
SpecOdsPair == InitOdsPair /\ [][NextOdsPair]_vars

\* the second call returned the Complete object
IsCompleteOfPair ==
    /\ call.op = "ods::read Last"
    /\ IsOk(call.result)
    /\ OkVal(call.result).kind = "Complete"

\* the (segment_size - 11) payload bytes of the First segment, the
\* (segment_size - 4) payload bytes of the Last segment, and the fields of
\* the First segment
PayloadOfFirst == SubSeq(call.args.first.bytes, 12, call.args.first.segments_size)
PayloadOfLast == SubSeq(call.args.last.bytes, 5, call.args.last.segments_size)
DataLengthOfFirst == DeclaredLength(call.args.first.bytes)
WidthOfFirst == u16_from_be_bytes(call.args.first.bytes[8], call.args.first.bytes[9])
HeightOfFirst == u16_from_be_bytes(call.args.first.bytes[10], call.args.first.bytes[11])

C38_CompleteIsFilledByPayloads ==
    IsCompleteOfPair =>
        /\ Len(PayloadOfFirst) + Len(PayloadOfLast) = DataLengthOfFirst - 4
        /\ Len(PayloadOfFirst) + Len(PayloadOfLast) = Len(OkVal(call.result).data.object_data)

----------------------------------------------------------------------------
(* vobsub/sub.rs: Subtitles, the end-time back-fill over SubtitlesInternal *)

\* items SubtitlesInternal yields before it ends
MaxItems == 4

\* 0.001 s and 5.0 s, in milliseconds
DEFAULT_SUBTITLE_SPACING == 1
DEFAULT_SUBTITLE_LENGTH == 5000

\* f64::min
Min(a, b) == IF a <= b THEN a ELSE b

\* A Subtitle: id stands for what the back-fill never reads (force, area,
\* palette, alpha, raw_image); it is the place of the subtitle in the stream.
Subtitle(id, start_time, end_time) ==
    [id |-> id, start_time |-> start_time, end_time |-> end_time]

\* start times (ms) of the subtitles SubtitlesInternal decodes
StartTimes == {0, 1, 5001, 5002}
\* a StopDate, when the subtitle has one, is 2 s after its StartDate
StopAfter == 2000

\* What SubtitlesInternal::next may return: None, Some(Err(..)) or Some(Ok(sub))
InternalResults(s) ==
    IF s.ended \/ Len(s.items) >= MaxItems THEN {None}
    ELSE {None, Some(Err("VobSubError"))}
         \cup {Some(Ok(Subtitle(Len(s.items) + 1, st,
                                 IF stop THEN Some(st + StopAfter) ELSE None))) :
                  st \in StartTimes, stop \in BOOLEAN}

\* self.internal.next() returned x
InternalNext(s, x) ==
    [s EXCEPT !.items = IF IsSome(x) THEN Append(@, Unwrap(x)) ELSE @,
              !.ended = @ \/ IsNone(x)]

\* A mutation of next_on_curr: the new subtitle is not kept as self.prev.
next_on_curr_not_kept(s, curr) ==
    [s EXCEPT !.prev = None, !.out = Append(@, Ok(Unwrap(s.prev)))]

\* A mutation of backfill_before_next: the spacing is not subtracted.
backfill_before_next_no_spacing(prev, curr) ==
    IF IsNone(prev.end_time)
    THEN [prev EXCEPT !.end_time =
              Some(Min(curr.start_time, prev.start_time + DEFAULT_SUBTITLE_LENGTH))]
    ELSE prev

\* Some(Ok(curr)): the end of prev when it has none
backfill_before_next(prev, curr) ==
    IF IsNone(prev.end_time)
    THEN LET new_end == curr.start_time - DEFAULT_SUBTITLE_SPACING
             alt_end == prev.start_time + DEFAULT_SUBTITLE_LENGTH
         IN [prev EXCEPT !.end_time = Some(Min(new_end, alt_end))]
    ELSE prev

\* Some(Ok(curr)): return self.prev and store curr as self.prev
next_on_curr(s, curr) ==
    [s EXCEPT !.prev = Some(curr),
              !.out = Append(@, Ok(backfill_before_next(Unwrap(s.prev), curr)))]

\* A mutation of next_on_err: the buffered subtitle is taken out and dropped.
next_on_err_drops_prev(s, err) ==
    [s EXCEPT !.prev = None, !.out = Append(@, err)]

\* Some(Err(err)) => Some(Err(err))
next_on_err(s, err) ==
    [s EXCEPT !.out = Append(@, err)]

\* Subtitle::end_time(): the end time, or the panic of expect() when it is missing
Subtitle_end_time(sub) ==
    IF IsSome(sub.end_time) THEN Ok(Unwrap(sub.end_time))
    ELSE Panic("end time should have been set before returning subtitle")

\* A mutation of next_on_none: the last subtitle is returned as it was decoded.
next_on_none_end_not_set(s) ==
    [s EXCEPT !.prev = None, !.out = Append(@, Ok(Unwrap(s.prev)))]

\* None: self.prev.take().map(..), with start + 5 s as the end it lacks
next_on_none(s) ==
    LET sub == Unwrap(s.prev) IN
    [s EXCEPT !.prev = None,
              !.out = Append(@, Ok(IF IsNone(sub.end_time)
                                   THEN [sub EXCEPT !.end_time =
                                            Some(sub.start_time + DEFAULT_SUBTITLE_LENGTH)]
                                   ELSE sub))]

\* The second half of Subtitles::next (self.prev is Some): the match on
\* self.internal.next(), which returned x.
next_with_prev(s, x) ==
    IF IsNone(x) THEN next_on_none(InternalNext(s, x))
    ELSE IF IsOk(Unwrap(x)) THEN next_on_curr(InternalNext(s, x), OkVal(Unwrap(x)))
    ELSE next_on_err(InternalNext(s, x), Unwrap(x))

\* Subtitles::next, called until it returns None
Subtitles_next ==
    /\ ~subs.done
    /\ \/ /\ IsSome(subs.prev)
          /\ \E x \in InternalResults(subs) : subs' = next_with_prev(subs, x)
       \/ /\ IsNone(subs.prev)
          /\ \E first \in InternalResults(subs) :
               LET s1 == InternalNext(subs, first) IN
               IF IsSome(first) /\ IsOk(Unwrap(first))
               THEN \E x \in InternalResults(s1) :
                      subs' = next_with_prev([s1 EXCEPT !.prev = Some(OkVal(Unwrap(first)))], x)
               ELSE IF IsSome(first)
               THEN subs' = [s1 EXCEPT !.out = Append(@, Unwrap(first))]
               ELSE subs' = [s1 EXCEPT !.done = TRUE]
    /\ UNCHANGED <<stream, closed, dto, dti, call, pes, rle>>

InitSubs ==
    /\ stream = <<>>
    /\ closed = FALSE
    /\ dto = DtoIdle
    /\ dti = DtiIdle
    /\ call = CallIdle
    /\ subs = SubsIdle
    /\ pes = PesIdle
    /\ rle = RleIdle

NextSubs == Subtitles_next
SpecSubs == InitSubs /\ [][NextSubs]_vars

----------------------------------------------------------------------------
(* Properties of Subtitles *)

IsOkItem(item) == item.tag = "Ok"
IsErrItem(item) == item.tag = "Err"

\* the subtitles SubtitlesInternal has decoded, and those Subtitles has returned
DecodedSubs == SelectSeq(subs.items, IsOkItem)
ReturnedSubs == SelectSeq(subs.out, IsOkItem)

Ids(items) == [k \in 1..Len(items) |-> OkVal(items[k]).id]

\* C7: a returned subtitle that was decoded without end time ends at
\* min(next.start - 0.001 s, start + 5 s) when a subtitle was decoded after
\* it and at start + 5 s when it is the last; an explicit end time is
\* returned unchanged.
C7_BackfilledEnd ==
    \A k \in 1..Len(ReturnedSubs) :
       k <= Len(DecodedSubs) /\
       LET got == OkVal(ReturnedSubs[k])
           decoded == OkVal(DecodedSubs[k])
       IN
       got.end_time =
          IF IsSome(decoded.end_time) THEN decoded.end_time
          ELSE IF k < Len(DecodedSubs)
          THEN LET following == OkVal(DecodedSubs[k + 1]) IN
               IF following.start_time - 1 < decoded.start_time + 5000
               THEN Some(following.start_time - 1)
               ELSE Some(decoded.start_time + 5000)
          ELSE Some(decoded.start_time + 5000)

\* C7 witness: all was returned: a subtitle ended just before the following
\* one, one ended 5 s after its start with a following one later than that,
\* one with its own end time, and a last one without end time.
C7_Witness ==
    /\ subs.done
    /\ Len(ReturnedSubs) = 4
    /\ \E i, j, k \in 1..3 :
          /\ IsNone(OkVal(DecodedSubs[i]).end_time)
          /\ OkVal(ReturnedSubs[i]).end_time = Some(OkVal(DecodedSubs[i + 1]).start_time - 1)
          /\ IsNone(OkVal(DecodedSubs[j]).end_time)
          /\ OkVal(ReturnedSubs[j]).end_time = Some(OkVal(DecodedSubs[j]).start_time + 5000)
          /\ OkVal(DecodedSubs[j + 1]).start_time - 1 > OkVal(DecodedSubs[j]).start_time + 5000
          /\ IsSome(OkVal(DecodedSubs[k]).end_time)
    /\ IsNone(OkVal(DecodedSubs[4]).end_time)
    /\ OkVal(ReturnedSubs[4]).end_time = Some(OkVal(DecodedSubs[4]).start_time + 5000)

\* C8: every returned subtitle whose end time was back-filled satisfies
\* start < end <= start + 5 s, and end < next.start when a subtitle follows,
\* for every pair of start times.
C8_BackfilledEndInRange ==
    \A k \in 1..Len(ReturnedSubs) :
       LET got == OkVal(ReturnedSubs[k])
           decoded == OkVal(DecodedSubs[k])
       IN
       IsNone(decoded.end_time) =>
          /\ got.start_time < Unwrap(got.end_time)
          /\ Unwrap(got.end_time) <= got.start_time + 5000
          /\ k < Len(DecodedSubs) =>
                Unwrap(got.end_time) < OkVal(DecodedSubs[k + 1]).start_time

\* C9: the subtitles returned, followed by the one held back, are the
\* decoded subtitles in their order, each once; at most one is held back,
\* and none once the iteration has ended.  Errors are passed through.
C9_OrderPreserved ==
    /\ Len(subs.prev) <= 1
    /\ Ids(ReturnedSubs) \o [k \in 1..Len(subs.prev) |-> subs.prev[k].id] = Ids(DecodedSubs)
    /\ \A k \in 1..Len(ReturnedSubs) :
          OkVal(ReturnedSubs[k]).start_time = OkVal(DecodedSubs[k]).start_time
    /\ subs.done => IsNone(subs.prev)
    /\ SelectSeq(subs.out, IsErrItem) = SelectSeq(subs.items, IsErrItem)

\* C9 witness: the iteration ended after three subtitles with an error
\* between them, all three returned.
C9_Witness ==
    /\ subs.done
    /\ Len(ReturnedSubs) = 3
    /\ Len(subs.items) = 4
    /\ IsErrItem(subs.items[2])

\* the step of Subtitles::next in which the internal iterator yields Err
\* while a subtitle is buffered (from an earlier call or from this one)
ErrWhileBuffered ==
    /\ Len(subs'.items) > Len(subs.items)
    /\ IsErrItem(subs'.items[Len(subs'.items)])
    /\ IsSome(subs.prev) \/ Len(subs'.items) = Len(subs.items) + 2

\* C10: when the internal iterator yields Err while a subtitle is buffered,
\* that call returns the Err and the buffered subtitle stays buffered,
\* unchanged (its end time still missing); it is returned by a later call:
\* none is buffered any more when the iteration has ended.
C10_ErrLeavesBuffered ==
    /\ [][ErrWhileBuffered =>
            /\ subs'.out = Append(subs.out, subs'.items[Len(subs'.items)])
            /\ subs'.prev = IF IsSome(subs.prev) THEN subs.prev
                            ELSE Some(OkVal(subs'.items[Len(subs.items) + 1]))]_vars
    /\ [](subs.done => \A k \in 1..Len(DecodedSubs) :
                          \E j \in 1..Len(ReturnedSubs) :
                             OkVal(ReturnedSubs[j]).id = OkVal(DecodedSubs[k]).id)

\* C10 witness: an Err came right after a subtitle without end time; the Err
\* was returned first and the subtitle after it.
C10_Witness ==
    \E i \in 2..Len(subs.items) :
       /\ IsErrItem(subs.items[i])
       /\ IsOkItem(subs.items[i - 1])
       /\ IsNone(OkVal(subs.items[i - 1]).end_time)
       /\ \E j \in 1..Len(subs.out) : \E l \in (j + 1)..Len(subs.out) :
             /\ IsErrItem(subs.out[j])
             /\ IsOkItem(subs.out[l])
             /\ OkVal(subs.out[l]).id = OkVal(subs.items[i - 1]).id

\* C11: every subtitle Subtitles::next has returned as Ok has its end time
\* set, after any calls and internal results: Subtitle::end_time() does not
\* panic on a returned subtitle.
C11_ReturnedEndTimeSet ==
    \A k \in 1..Len(ReturnedSubs) : IsOk(Subtitle_end_time(OkVal(ReturnedSubs[k])))

\* C11 witness: two subtitles decoded without end time were returned, one
\* before a following subtitle and one as the last of the stream.
C11_Witness ==
    /\ subs.done
    /\ Len(ReturnedSubs) >= 2
    /\ IsNone(OkVal(DecodedSubs[1]).end_time)
    /\ IsNone(OkVal(DecodedSubs[Len(DecodedSubs)]).end_time)
    /\ IsOk(Subtitle_end_time(OkVal(ReturnedSubs[1])))
    /\ IsOk(Subtitle_end_time(OkVal(ReturnedSubs[Len(ReturnedSubs)])))

----------------------------------------------------------------------------
(* vobsub/mpeg2: ps.rs PesPackets over pes.rs packet, on the bytes of a .sub *)

\* chunks (packets and garbage) an input is made of
MaxChunks == 2

Take(s, n) == SubSeq(s, 1, n)
Drop(s, n) == SubSeq(s, n + 1, Len(s))

\* nom::IResult: Ok((rest, value)), Err(Error | Failure), Err(Incomplete)
NomOk(rest, val) == [tag |-> "Ok", rest |-> rest, val |-> val]
NomError == [tag |-> "Error", rest |-> <<>>, val |-> <<>>]
NomIncomplete == [tag |-> "Incomplete", rest |-> <<>>, val |-> <<>>]

\* sync bytes 00 00 01 ba of a Program Stream header, 00 00 01 bd of a PES packet
PS_HEADER_TAG == <<0, 0, 1, 186>>
PACKET_TAG == <<0, 0, 1, 189>>

\* Clock::base(stc).with_ext(ext): ext is or-ed into the 9 low bits, zero in base
Clock(stc, ext) == (stc * 512) + ext

\* clock(): 3 + 15 + 15 bits, a marker bit 1 after each part; b is the 5 bytes
\* that hold them and lead the number of bits before the clock in b[1]
\* (2 after the MPEG-2 tag of a PS header, 4 after the tag of a PTS)
clock_markers(b, lead) ==
    IF lead = 2
    THEN (b[1] \div 4) % 2 = 1 /\ (b[3] \div 4) % 2 = 1 /\ (b[5] \div 4) % 2 = 1
    ELSE b[1] % 2 = 1 /\ b[3] % 2 = 1 /\ b[5] % 2 = 1

clock_value(b, lead) ==
    IF lead = 2
    THEN (((b[1] \div 8) % 8) * 1073741824)
         + ((((b[1] % 4) * 8192) + (b[2] * 32) + (b[3] \div 8)) * 32768)
         + (((b[3] % 4) * 8192) + (b[4] * 32) + (b[5] \div 8))
    ELSE (((b[1] \div 2) % 8) * 1073741824)
         + (((b[2] * 128) + (b[3] \div 2)) * 32768)
         + ((b[4] * 128) + (b[5] \div 2))

\* ps::header: the sync bytes, then 10 bytes read bit by bit (tag 01,
\* clock_and_ext, 22 bits of bit rate, marker bits 11, 5 reserved bits, 3 bits
\* of stuffing length) and the stuffing bytes.  All parsers are the complete
\* ones: a short input is an Error.
ps_header(input) ==
    IF Len(input) < 4 \/ Take(input, 4) # PS_HEADER_TAG THEN NomError
    ELSE LET h == Drop(input, 4) IN
         IF Len(h) < 10 THEN NomError
         ELSE IF h[1] \div 64 # 1 THEN NomError
         ELSE IF ~clock_markers(h, 2) THEN NomError
         ELSE IF h[6] % 2 # 1 THEN NomError
         ELSE IF h[9] % 4 # 3 THEN NomError
         ELSE LET stuffing_length == h[10] % 8
                  ext == ((h[5] % 4) * 128) + (h[6] \div 2)
                  bit_rate == (h[7] * 16384) + (h[8] * 64) + (h[9] \div 4)
              IN IF Len(h) < 10 + stuffing_length THEN NomError
                 ELSE NomOk(Drop(h, 10 + stuffing_length),
                            [scr |-> Clock(clock_value(h, 2), ext), bit_rate |-> bit_rate])

\* pes.rs pts_only / pts_and_dts: tag 0010 and a clock, once or twice
pts_only(i) ==
    IF Len(i) < 5 \/ i[1] \div 16 # 2 \/ ~clock_markers(i, 4) THEN NomError
    ELSE NomOk(Drop(i, 5), [pts |-> Clock(clock_value(i, 4), 0), dts |-> None])

pts_and_dts(i) ==
    LET both(first, second) ==
            IF second.tag # "Ok" THEN NomError
            ELSE NomOk(second.rest, [pts |-> first.val.pts, dts |-> Some(second.val.pts)])
        after(first) ==
            IF first.tag # "Ok" THEN NomError ELSE both(first, pts_only(first.rest))
    IN after(pts_only(i))

\* pes.rs pts_dts(i, flags)
pts_dts(i, flags) ==
    LET map_some(r) == IF r.tag = "Ok" THEN NomOk(r.rest, Some(r.val)) ELSE r IN
    CASE flags = "None" -> NomOk(i, None)
      [] flags = "Pts" -> map_some(pts_only(i))
      [] flags = "PtsDts" -> map_some(pts_and_dts(i))

\* nom length_value(count, inner) once the count n is read: Incomplete when
\* fewer than n bytes are left; inner runs on exactly n bytes, what it leaves
\* of them is discarded, and an Incomplete of inner becomes an Error.
length_value_check(n, i) == IF n > Len(i) THEN NomIncomplete ELSE NomOk(Drop(i, n), Take(i, n))

\* pes.rs header_data: the flag byte (pts_dts_flags 00, 10 or 11 and six
\* flags), a length byte, that many bytes of header data
header_data(input) ==
    IF Len(input) < 1 \/ input[1] \div 64 = 1 THEN NomError
    ELSE LET pts_dts_flags == CASE input[1] \div 64 = 0 -> "None"
                                [] input[1] \div 64 = 2 -> "Pts"
                                [] input[1] \div 64 = 3 -> "PtsDts"
             flags == [pts_dts_flags |-> pts_dts_flags, bits |-> input[1] % 64]
             parsed(lv, r) ==
                 IF r.tag # "Ok" THEN NomError
                 ELSE NomOk(lv.rest, [flags |-> flags, pts_dts |-> r.val])
             of_length(lv) ==
                 IF lv.tag # "Ok" THEN lv ELSE parsed(lv, pts_dts(lv.val, pts_dts_flags))
         IN IF Len(input) < 2 THEN NomError
            ELSE of_length(length_value_check(input[2], Drop(input, 2)))

\* pes.rs packet_helper: (header, header_data, be_u8, rest)
packet_helper(input) ==
    IF Len(input) < 1 \/ input[1] \div 64 # 2 THEN NomError
    ELSE LET after(hd) ==
                 IF hd.tag # "Ok" THEN hd
                 ELSE IF Len(hd.rest) < 1 THEN NomError
                 ELSE NomOk(<<>>, [header |-> input[1] % 64, header_data |-> hd.val,
                                   substream_id |-> hd.rest[1], data |-> Drop(hd.rest, 1)])
         IN after(header_data(Drop(input, 1)))

\* pes.rs packet: the tag, then length_value(be_u16, packet_helper)
packet(input) ==
    IF Len(input) < 4 \/ Take(input, 4) # PACKET_TAG THEN NomError
    ELSE IF Len(input) < 6 THEN NomError
    ELSE LET parsed(lv, r) == IF r.tag # "Ok" THEN NomError ELSE NomOk(lv.rest, r.val)
             of_length(lv) == IF lv.tag # "Ok" THEN lv ELSE parsed(lv, packet_helper(lv.val))
         IN of_length(length_value_check((input[5] * 256) + input[6], Drop(input, 6)))

\* ps.rs pes_packet: (header, pes::packet)
pes_packet(input) ==
    LET both(h, p) ==
            IF p.tag # "Ok" THEN p
            ELSE NomOk(p.rest, [ps_header |-> h.val, pes_packet |-> p.val])
        after(h) == IF h.tag # "Ok" THEN h ELSE both(h, packet(h.rest))
    IN after(ps_header(input))

\* .position(|window| needle == window): the bytes before the first
\* occurrence of the sync bytes, None when there is none
RECURSIVE position(_, _)
position(remaining, skipped) ==
    IF Len(remaining) < 4 THEN None
    ELSE IF Take(remaining, 4) = PS_HEADER_TAG THEN Some(skipped)
    ELSE position(Drop(remaining, 1), skipped + 1)

\* The loop of PesPackets::next on self.remaining: the new self.remaining and
\* the item returned
RECURSIVE PesPackets_loop(_)
PesPackets_loop(remaining) ==
    LET match(found, r) ==
            CASE r.tag = "Ok" -> [remaining |-> r.rest, item |-> Some(Ok(r.val))]
              [] r.tag = "Incomplete" ->
                   [remaining |-> <<>>, item |-> Some(Err("PESPacket(IncompleteInput)"))]
              [] r.tag = "Error" -> PesPackets_loop(Drop(found, 4))
        at(found) == match(found, pes_packet(found))
        from(start) ==
            IF IsNone(start) THEN [remaining |-> <<>>, item |-> None]
            ELSE at(Drop(remaining, Unwrap(start)))
    IN from(position(remaining, 0))

\* A Program Stream header (no stuffing) and the start of a PES packet of
\* the given length with no PTS: header byte, flag byte, header data length
PsHeaderBytes == <<0, 0, 1, 186, 68, 2, 196, 130, 4, 169, 1, 137, 195, 248>>
PesStart(length) == <<0, 0, 1, 189, 0, length, 129, 0, 0>>

\* Two valid packets: substream 0x20 with one byte of data and no PTS;
\* substream 0x21 with a PTS and two bytes of data.
PacketA == PsHeaderBytes \o PesStart(5) \o <<32, 7>>
PacketB == PsHeaderBytes \o <<0, 0, 1, 189, 0, 11, 129, 128, 5, 33, 0, 171, 233, 193, 33, 8, 9>>
ValidPackets == {PacketA, PacketB}

\* Garbage between packets: plain bytes, a broken start of the sync bytes,
\* the sync bytes alone, a header followed by no PES packet, and bytes that
\* are the start of a packet announcing more data than the garbage holds
\* (1 byte more, and 255 bytes more than any input here has).
Garbage ==
    { <<>>, <<255>>, <<0, 0, 1>>, PS_HEADER_TAG, PsHeaderBytes \o <<255>>,
      PsHeaderBytes \o PesStart(5) \o <<32>>,
      PsHeaderBytes \o PesStart(255) \o <<32>> }

\* The inputs: up to MaxChunks valid packets, garbage before each, and after
RECURSIVE Inputs(_)
Inputs(n) ==
    IF n = 0 THEN {[bytes |-> g, packets |-> <<>>] : g \in Garbage}
    ELSE Inputs(n - 1) \cup
         {[bytes |-> g \o p \o rest.bytes, packets |-> <<p>> \o rest.packets] :
             g \in Garbage, p \in ValidPackets, rest \in Inputs(n - 1)}

InitPes ==
    /\ stream = <<>>
    /\ closed = FALSE
    /\ dto = DtoIdle
    /\ dti = DtiIdle
    /\ call = CallIdle
    /\ subs = SubsIdle
    /\ rle = RleIdle
    /\ \E i \in Inputs(MaxChunks) :
          pes = [input |-> i.bytes, packets |-> i.packets, remaining |-> i.bytes,
                 out |-> <<>>, done |-> FALSE]

\* PesPackets::next, called until it returns None
PesPackets_next ==
    /\ ~pes.done
    /\ LET returned(r) ==
               [pes EXCEPT !.remaining = r.remaining,
                           !.out = IF IsSome(r.item) THEN Append(@, Unwrap(r.item)) ELSE @,
                           !.done = IsNone(r.item)]
       IN pes' = returned(PesPackets_loop(pes.remaining))
    /\ UNCHANGED <<stream, closed, dto, dti, call, subs, rle>>

NextPes == PesPackets_next
SpecPes == InitPes /\ [][NextPes]_vars

----------------------------------------------------------------------------
(* Properties of PesPackets *)

\* a occurs in b as a subsequence: its elements, in their order
RECURSIVE IsSubseq(_, _)
IsSubseq(a, b) ==
    IF Len(a) = 0 THEN TRUE
    ELSE IF Len(b) = 0 THEN FALSE
    ELSE IF a[1] = b[1] THEN IsSubseq(Drop(a, 1), Drop(b, 1))
    ELSE IsSubseq(a, Drop(b, 1))

\* the packets PesPackets has returned, and the valid packets of the input
\* as pes_packet reads each of them on its own
ReturnedPackets == [k \in 1..Len(SelectSeq(pes.out, IsOkItem)) |->
                       OkVal(SelectSeq(pes.out, IsOkItem)[k])]
PacketsOfInput == [k \in 1..Len(pes.packets) |-> pes_packet(pes.packets[k]).val]

\* C12: on an input of valid packets separated by arbitrary garbage, when
\* the iteration has ended PesPackets has returned every valid packet, in
\* the order of the input: none skipped, swallowed by another or cut off.
C12_NoValidPacketLost ==
    pes.done => IsSubseq(PacketsOfInput, ReturnedPackets)

----------------------------------------------------------------------------
(* content/area.rs: Area over AreaValues, u16 coordinates *)

\* u16::MAX
U16_MAX == 65535

\* the u16 coordinates tried: both ends of the range and their neighbours
Coordinates == {0, 1, 2, U16_MAX - 1, U16_MAX}

AreaValues(x1, y1, x2, y2) == [x1 |-> x1, y1 |-> y1, x2 |-> x2, y2 |-> y2]

\* A mutation of Area_try_from: a box of equal bounds is accepted.
Area_try_from_accepts_equal(coords_value) ==
    IF coords_value.x2 < coords_value.x1 \/ coords_value.y2 < coords_value.y1
    THEN Err("InvalidAreaBounding")
    ELSE Ok(coords_value)

\* impl TryFrom<AreaValues> for Area
Area_try_from(coords_value) ==
    IF coords_value.x2 <= coords_value.x1 \/ coords_value.y2 <= coords_value.y1
    THEN Err("InvalidAreaBounding")
    ELSE Ok(coords_value)

\* hi + 1 - lo in u16: the addition overflows for hi = u16::MAX; the build
\* then either panics (overflow checks on, the debug profile) or wraps
\* (checks off, the release profile), and so does the subtraction after it.
u16_span(lo, hi, overflow_checks) ==
    IF hi + 1 > U16_MAX
    THEN IF overflow_checks THEN Panic("attempt to add with overflow")
         ELSE Ok((((hi + 1) % (U16_MAX + 1)) - lo) % (U16_MAX + 1))
    ELSE IF hi + 1 - lo < 0
    THEN IF overflow_checks THEN Panic("attempt to subtract with overflow")
         ELSE Ok((hi + 1 - lo) % (U16_MAX + 1))
    ELSE Ok(hi + 1 - lo)

\* Area::width, Area::height
Area_width(area, overflow_checks) == u16_span(area.x1, area.x2, overflow_checks)
Area_height(area, overflow_checks) == u16_span(area.y1, area.y2, overflow_checks)

\* Area::size: Size { w, h }, or the panic of width() or height()
Area_size(area, overflow_checks) ==
    LET w == Area_width(area, overflow_checks)
        h == Area_height(area, overflow_checks)
    IN IF ~IsOk(w) THEN w
       ELSE IF ~IsOk(h) THEN h
       ELSE Ok([w |-> OkVal(w), h |-> OkVal(h)])

AreaArgs ==
    {[coords_value |-> AreaValues(x1, y1, x2, y2), overflow_checks |-> c] :
        x1 \in Coordinates, y1 \in Coordinates, x2 \in Coordinates, y2 \in Coordinates,
        c \in BOOLEAN}

InitArea ==
    /\ stream = <<>>
    /\ closed = FALSE
    /\ dto = DtoIdle
    /\ dti = DtiIdle
    /\ subs = SubsIdle
    /\ pes = PesIdle
    /\ rle = RleIdle
    /\ \E a \in AreaArgs : call = [op |-> "Area::try_from", args |-> a, result |-> Pending]

Call_Area_try_from ==
    /\ call.op = "Area::try_from"
    /\ call.result.tag = "Pending"
    /\ call' = [call EXCEPT !.result = Area_try_from(call.args.coords_value)]
    /\ UNCHANGED <<stream, closed, dto, dti, subs, pes, rle>>

\* width() called on the Area that try_from returned
Call_Area_width ==
    /\ call.op = "Area::try_from"
    /\ IsOk(call.result)
    /\ call' = [op |-> "Area::width", args |-> call.args,
                result |-> Area_width(OkVal(call.result), call.args.overflow_checks)]
    /\ UNCHANGED <<stream, closed, dto, dti, subs, pes, rle>>

\* height() called on the Area that try_from returned
Call_Area_height ==
    /\ call.op = "Area::try_from"
    /\ IsOk(call.result)
    /\ call' = [op |-> "Area::height", args |-> call.args,
                result |-> Area_height(OkVal(call.result), call.args.overflow_checks)]
    /\ UNCHANGED <<stream, closed, dto, dti, subs, pes, rle>>

NextArea == Call_Area_try_from \/ Call_Area_width \/ Call_Area_height
SpecArea == InitArea /\ [][NextArea]_vars

\* C14: Area::try_from returns Ok if and only if x2 > x1 and y2 > y1, and
\* Err(InvalidAreaBounding) in every other case, for 16-bit coordinates.
C14_TryFromOkIffOrdered ==
    (call.op = "Area::try_from" /\ call.result.tag # "Pending") =>
       LET v == call.args.coords_value IN
       IF v.x2 > v.x1 /\ v.y2 > v.y1
       THEN call.result = Ok(v)
       ELSE call.result = Err("InvalidAreaBounding")

\* C14 witness: try_from has refused a box of equal x bounds whose y bounds
\* are in order.
C14_Witness ==
    /\ call.op = "Area::try_from"
    /\ call.result = Err("InvalidAreaBounding")
    /\ call.args.coords_value.x1 = call.args.coords_value.x2
    /\ call.args.coords_value.y1 < call.args.coords_value.y2

\* C15: for every Area try_from accepts, up to x2 = 65535 and y2 = 65535,
\* width() is x2 - x1 + 1 and height() is y2 - y1 + 1 as integers, both
\* at least 1, computed without overflow of the u16 arithmetic.
C15_WidthHeightExact ==
    LET v == call.args.coords_value IN
    /\ call.op = "Area::width" =>
          call.result = Ok(v.x2 - v.x1 + 1) /\ OkVal(call.result) >= 1
    /\ call.op = "Area::height" =>
          call.result = Ok(v.y2 - v.y1 + 1) /\ OkVal(call.result) >= 1

----------------------------------------------------------------------------
(* vobsub/img.rs: decompress, the 2-bit run-length decoder of VobSub images *)

\* bytes of each of the two RLE streams (even and odd scan lines)
MaxRleBytes == 2

\* bit i (from 0, most significant first) of a byte slice
bit_at(input, i) == (input[(i \div 8) + 1] \div (2 ^ (7 - (i % 8)))) % 2

\* nom bits::complete::take(n) at bit position pos: the value of the n bits
RECURSIVE take_bits(_, _, _)
take_bits(input, pos, n) ==
    IF n = 0 THEN 0 ELSE (take_bits(input, pos, n - 1) * 2) + bit_at(input, pos + n - 1)

\* the complete bit parsers fail (Eof) when fewer than n bits are left
has_bits(input, pos, n) == pos + n <= 8 * Len(input)

\* tag_bits(0, n)
tag_zero(input, pos, n) == has_bits(input, pos, n) /\ take_bits(input, pos, n) = 0

\* result of a bit parser: the position after it and the value
BitsOk(pos, val) == [tag |-> "Ok", pos |-> pos, val |-> val]
BitsError == [tag |-> "Error", pos |-> 0, val |-> 0]

\* A mutation of count: alt tries the shortest code first.
count_shortest_first(input, pos) ==
    IF has_bits(input, pos, 2)
    THEN BitsOk(pos + 2, take_bits(input, pos, 2))
    ELSE BitsError

\* count: alt((end_of_line, count4, count3, count2, count1))
count(input, pos) ==
    IF tag_zero(input, pos, 14) THEN BitsOk(pos + 14, 0)
    ELSE IF tag_zero(input, pos, 6) /\ has_bits(input, pos + 6, 8)
    THEN BitsOk(pos + 14, take_bits(input, pos + 6, 8))
    ELSE IF tag_zero(input, pos, 4) /\ has_bits(input, pos + 4, 6)
    THEN BitsOk(pos + 10, take_bits(input, pos + 4, 6))
    ELSE IF tag_zero(input, pos, 2) /\ has_bits(input, pos + 2, 4)
    THEN BitsOk(pos + 6, take_bits(input, pos + 2, 4))
    ELSE IF has_bits(input, pos, 2)
    THEN BitsOk(pos + 2, take_bits(input, pos, 2))
    ELSE BitsError

\* A mutation of rle_run: the value is read as a nibble of 4 bits.
rle_run_val_nibble(input, pos) ==
    LET c == count(input, pos) IN
    IF c.tag # "Ok" THEN BitsError
    ELSE IF ~has_bits(input, c.pos, 4) THEN BitsError
    ELSE BitsOk(c.pos + 4, [cnt |-> c.val, val |-> take_bits(input, c.pos, 4)])

\* rle: (count, take_bits(2)) => Rle { cnt, val }
rle_run(input, pos) ==
    LET c == count(input, pos) IN
    IF c.tag # "Ok" THEN BitsError
    ELSE IF ~has_bits(input, c.pos, 2) THEN BitsError
    ELSE BitsOk(c.pos + 2, [cnt |-> c.val, val |-> take_bits(input, c.pos, 2)])

\* output[x..x + n].fill(val)
fill(output, x, n, val) ==
    [k \in 1..Len(output) |-> IF x < k /\ k <= x + n THEN val ELSE output[k]]

\* scan_line: Ok(consumed) with the line written to output, or the error
RECURSIVE scan_line_loop(_, _, _, _)
\* A mutation of scan_line_loop: a run is written without the check of its
\* end against the output, and the line is found too long after the loop.
scan_line_loop_end_not_checked(input, output, x, pos) ==
    LET width == Len(output) IN
    IF x < width
    THEN LET run == rle_run(input, pos) IN
         IF run.tag # "Ok" THEN Err("ScanLineParsing")
         ELSE LET n == IF run.val.cnt = 0 THEN width - x ELSE run.val.cnt IN
              scan_line_loop(input, fill(output, x, n, run.val.val), x + n, run.pos)
    ELSE IF x > width THEN Err("ScanLineLongerThanWidth")
    ELSE Ok([consumed |-> (pos + 7) \div 8, output |-> output])

scan_line_loop(input, output, x, pos) ==
    LET width == Len(output) IN
    IF x < width
    THEN LET run == rle_run(input, pos) IN
         IF run.tag # "Ok" THEN Err("ScanLineParsing")
         ELSE LET n == IF run.val.cnt = 0 THEN width - x ELSE run.val.cnt IN
              IF x + n > Len(output) THEN Err("ToSmallOutput")
              ELSE scan_line_loop(input, fill(output, x, n, run.val.val), x + n, run.pos)
    ELSE IF x > width THEN Err("ScanLineLongerThanWidth")
    ELSE Ok([consumed |-> (pos + 7) \div 8, output |-> output])

scan_line(input, output) == scan_line_loop(input, output, 0, 0)

\* decompress: img = vec![0; w * h]; line y is read from data[y % 2] at
\* offsets[y % 2] into img[y * w .. (y + 1) * w]
RECURSIVE decompress_loop(_, _, _, _, _)
\* A mutation of decompress_loop: the two streams share one cursor.
decompress_loop_shared_cursor(size, data, img, offsets, y) ==
    IF y >= size.h THEN Ok(img)
    ELSE LET odd == y % 2
             line == scan_line(Drop(data[odd + 1], offsets[1]),
                               SubSeq(img, (y * size.w) + 1, (y + 1) * size.w))
         IN IF ~IsOk(line) THEN line
            ELSE decompress_loop(size, data,
                    SubSeq(img, 1, y * size.w) \o OkVal(line).output
                       \o SubSeq(img, ((y + 1) * size.w) + 1, Len(img)),
                    [offsets EXCEPT ![1] = @ + OkVal(line).consumed],
                    y + 1)

decompress_loop(size, data, img, offsets, y) ==
    IF y >= size.h THEN Ok(img)
    ELSE LET odd == y % 2
             line == scan_line(Drop(data[odd + 1], offsets[odd + 1]),
                               SubSeq(img, (y * size.w) + 1, (y + 1) * size.w))
         IN IF ~IsOk(line) THEN line
            ELSE decompress_loop(size, data,
                    SubSeq(img, 1, y * size.w) \o OkVal(line).output
                       \o SubSeq(img, ((y + 1) * size.w) + 1, Len(img)),
                    [offsets EXCEPT ![odd + 1] = @ + OkVal(line).consumed],
                    y + 1)

decompress(size, data) ==
    decompress_loop(size, data, [k \in 1..(size.w * size.h) |-> 0], <<0, 0>>, 0)

\* bytes of the RLE streams: 00 (with 00 or 03 after it, 14 zero bits: fill
\* the line), 03 (count 0 in 4 bits: fill the line with 3), 54 (runs 1 x 1,
\* 1 x 0), 97 (runs 2 x 1, 1 x 3)
RleBytes == {0, 3, 84, 151}

RECURSIVE ByteStrings(_)
ByteStrings(n) ==
    IF n = 0 THEN {<<>>}
    ELSE ByteStrings(n - 1) \cup
         {Append(b, x) : b \in {c \in ByteStrings(n - 1) : Len(c) = n - 1}, x \in RleBytes}

\* areas try_from accepts: 2 or 3 pixels each way, and the bounds 0..65535
ImageAreas ==
    {AreaValues(0, 0, x2, y2) : x2 \in {1, 2, U16_MAX}, y2 \in {1, 2, U16_MAX}}

DecompressArgs ==
    {[area |-> a, overflow_checks |-> c, data |-> <<d0, d1>>] :
        a \in ImageAreas, c \in BOOLEAN,
        d0 \in ByteStrings(MaxRleBytes), d1 \in ByteStrings(MaxRleBytes)}

InitDecompress ==
    /\ stream = <<>>
    /\ closed = FALSE
    /\ dto = DtoIdle
    /\ dti = DtiIdle
    /\ subs = SubsIdle
    /\ pes = PesIdle
    /\ rle = RleIdle
    /\ \E a \in DecompressArgs : call = [op |-> "decompress", args |-> a, result |-> Pending]

\* decompress(area.size(), data), as subtitle() and to_image call it
Call_decompress ==
    /\ call.op = "decompress"
    /\ call.result.tag = "Pending"
    /\ LET size == Area_size(call.args.area, call.args.overflow_checks) IN
       call' = [call EXCEPT !.result = IF IsOk(size) THEN decompress(OkVal(size), call.args.data)
                                       ELSE size]
    /\ UNCHANGED <<stream, closed, dto, dti, subs, pes, rle>>

NextDecompress == Call_decompress
SpecDecompress == InitDecompress /\ [][NextDecompress]_vars

\* C13: every image decompress returns as a success has exactly
\* area.width() * area.height() pixels, each of them in 0..=3, for every
\* area and every pair of RLE streams.
C13_PixelBufferExact ==
    (call.op = "decompress" /\ IsOk(call.result)) =>
       LET img == OkVal(call.result)
           w == OkVal(Area_width(call.args.area, call.args.overflow_checks))
           h == OkVal(Area_height(call.args.area, call.args.overflow_checks))
       IN /\ Len(img) = w * h
          /\ \A k \in 1..Len(img) : img[k] \in 0..3

\* C13 witness: an image of 3 x 2 pixels was decoded from two streams, with
\* pixels of value 3 and of value 1 in it.
C13_Witness ==
    /\ call.op = "decompress"
    /\ IsOk(call.result)
    /\ call.args.area = AreaValues(0, 0, 2, 1)
    /\ Len(OkVal(call.result)) = 6
    /\ \E j, k \in 1..6 : OkVal(call.result)[j] = 3 /\ OkVal(call.result)[k] = 1

\* The run codes of one row of width pixels, read from bit pos of input
\* with x pixels written: the pixels they give and the bit after the last
\* code. A code of count 0 fills the row; the reading stops at width pixels.
RECURSIVE RowCodes(_, _, _, _)
RowCodes(input, pos, x, width) ==
    IF x >= width \/ rle_run(input, pos).tag # "Ok" THEN [bits |-> pos, pixels |-> <<>>]
    ELSE LET run == rle_run(input, pos)
             n == IF run.val.cnt = 0 THEN width - x ELSE run.val.cnt
             rest == RowCodes(input, run.pos, x + n, width)
         IN [bits |-> rest.bits, pixels |-> [i \in 1..n |-> run.val.val] \o rest.pixels]

\* the bytes the codes of a row take, rounded up to a whole byte
RowBytes(input, width) == (RowCodes(input, 0, 0, width).bits + 7) \div 8

\* the byte offset of row y in its stream: the sum of the bytes of the
\* earlier rows of the same parity
RECURSIVE RowOffset(_, _, _)
RowOffset(data, y, width) ==
    IF y < 2 THEN 0
    ELSE RowOffset(data, y - 2, width)
         + RowBytes(Drop(data[(y % 2) + 1], RowOffset(data, y - 2, width)), width)

\* C31: in an image decompress returns, row y is what the run codes of
\* stream (y mod 2) give from the byte offset that is the sum of the bytes
\* of the earlier rows of the same parity, each row taking its codes rounded
\* up to a whole byte (a row whose runs total the width without an
\* end-of-line code takes those codes only); the rows of the other stream
\* move this offset by nothing.
C31_RowsReadFromTheirStream ==
    (call.op = "decompress" /\ IsOk(call.result)) =>
       LET img == OkVal(call.result)
           w == OkVal(Area_width(call.args.area, call.args.overflow_checks))
           h == OkVal(Area_height(call.args.area, call.args.overflow_checks))
       IN \A y \in 0..(h - 1) :
             SubSeq(img, (y * w) + 1, (y + 1) * w)
                = RowCodes(Drop(call.args.data[(y % 2) + 1], RowOffset(call.args.data, y, w)),
                           0, 0, w).pixels

\* C31 witness: an image of 2 x 3 pixels was decoded from the streams 97 54
\* and 54: row 0 is the run of 2 x 1 of the byte 97, 4 bits rounded up to
\* the byte; row 1 is the byte 54 of the other stream; row 2 is the two
\* runs of the byte 54, at offset 1 of the first stream.
C31_Witness ==
    /\ call.op = "decompress"
    /\ IsOk(call.result)
    /\ call.args.area = AreaValues(0, 0, 1, 2)
    /\ call.args.data = <<(<<151, 84>>), (<<84>>)>>
    /\ OkVal(call.result) = <<1, 1, 1, 0, 1, 0>>

----------------------------------------------------------------------------
(* pgs/pds.rs: Palette::get *)

\* entries of a palette
MaxEntries == 3

\* idx as usize for an i16: a negative idx wraps to the top of the usize
\* range.  usize is at least 16 bits wide; that least width is taken here,
\* and the wrapped index (65281 or more) is already past the 13106 entries
\* the largest segment holds.
as_usize(idx) == IF idx < 0 THEN 65536 + idx ELSE idx

\* A mutation of Palette_get: the offset of the first entry is not applied.
Palette_get_no_offset(palette, id) ==
    LET idx == id IN
    IF as_usize(idx) < Len(palette.entries) THEN Some(palette.entries[as_usize(idx) + 1])
    ELSE None

\* Palette::get: self.entries.get((i16::from(id) + self.offset) as usize)
Palette_get(palette, id) ==
    LET idx == id + palette.offset IN
    IF as_usize(idx) < Len(palette.entries) THEN Some(palette.entries[as_usize(idx) + 1])
    ELSE None

\* palette_entry_id of the entries tried: both ends of u8 and their neighbours
EntryIds == {0, 1, 254, 255}

\* entry of the given id; its luminance tells the entries of a palette apart
Entry(id, luminance) ==
    [palette_entry_id |-> id, luminance |-> luminance, color_difference_red |-> 128,
     color_difference_blue |-> 128, transparency |-> 255]

RECURSIVE Palettes(_)
Palettes(n) ==
    IF n = 0 THEN {Palette_new(<<>>)}
    ELSE Palettes(n - 1) \cup
         {Palette_new(Append(q.entries, Entry(id, n))) :
             q \in {r \in Palettes(n - 1) : Len(r.entries) = n - 1}, id \in EntryIds}

InitPalette ==
    /\ stream = <<>>
    /\ closed = FALSE
    /\ dto = DtoIdle
    /\ dti = DtiIdle
    /\ subs = SubsIdle
    /\ pes = PesIdle
    /\ rle = RleIdle
    /\ \E q \in Palettes(MaxEntries), id \in 0..255 :
          call = [op |-> "Palette::get", args |-> [palette |-> q, id |-> id], result |-> Pending]

Call_Palette_get ==
    /\ call.op = "Palette::get"
    /\ call.result.tag = "Pending"
    /\ call' = [call EXCEPT !.result = Ok(Palette_get(call.args.palette, call.args.id))]
    /\ UNCHANGED <<stream, closed, dto, dti, subs, pes, rle>>

NextPalette == Call_Palette_get
SpecPalette == InitPalette /\ [][NextPalette]_vars

\* C17: Palette::get(i) is the entry at position i - first_entry.id when
\* 0 <= i - first_entry.id < number of entries, and None otherwise: below
\* the first id, past the last position, and on an empty palette.
C17_PaletteGetByPosition ==
    (call.op = "Palette::get" /\ IsOk(call.result)) =>
       LET entries == call.args.palette.entries
           i == call.args.id
       IN IF Len(entries) > 0 /\ 0 <= i - entries[1].palette_entry_id
              /\ i - entries[1].palette_entry_id < Len(entries)
          THEN OkVal(call.result) = Some(entries[(i - entries[1].palette_entry_id) + 1])
          ELSE OkVal(call.result) = None

\* C17 witness: on a palette of three entries whose first id is 254, id 255
\* returned the second entry.
C17_Witness ==
    /\ call.op = "Palette::get"
    /\ IsOk(call.result)
    /\ Len(call.args.palette.entries) = 3
    /\ call.args.palette.entries[1].palette_entry_id = 254
    /\ call.args.id = 255
    /\ OkVal(call.result) = Some(call.args.palette.entries[2])

----------------------------------------------------------------------------
(* pgs/pgs_image.rs: RlePixelIterator over the raw data of an RleEncodedImage *)

\* lines of an image
MaxHeight == 2

\* read_next_pixel on self.raw_data: what is left of it and Some((color,
\* nb_pixels)), None at the end of the data, or the panic of unwrap() when
\* the data ends inside a code
RECURSIVE read_next_pixel(_)
read_next_pixel(raw_data) ==
    IF Len(raw_data) = 0 THEN [raw_data |-> raw_data, item |-> Ok(None)]
    ELSE LET next == raw_data[1]
             after == Drop(raw_data, 1)
         IN
         IF next # 0 THEN [raw_data |-> after, item |-> Ok(Some(<<next, 1>>))]
         ELSE IF Len(after) = 0
         THEN [raw_data |-> <<>>, item |-> Panic("read_exact(&mut l2).unwrap()")]
         ELSE IF after[1] = 0 THEN read_next_pixel(Drop(after, 1))
         ELSE LET byte == after[1]
                  long == (byte \div 64) % 2 = 1
                  colorN == byte \div 128 = 1
                  after_count == Drop(after, IF long THEN 2 ELSE 1)
              IN
              IF long /\ Len(after) < 2
              THEN [raw_data |-> <<>>, item |-> Panic("read_exact(&mut l3).unwrap()")]
              ELSE IF colorN /\ Len(after_count) = 0
              THEN [raw_data |-> <<>>, item |-> Panic("read_exact(&mut color).unwrap()")]
              ELSE LET nb_pixels == IF long THEN ((byte % 64) * 256) + after[2]
                                    ELSE byte % 64
                       color == IF colorN THEN after_count[1] ELSE 0
                   IN [raw_data |-> IF colorN THEN Drop(after_count, 1) ELSE after_count,
                       item |-> Ok(Some(<<color, nb_pixels>>))]

\* pe_to_luma_a: LumaA([luminance, transparency])
pe_to_luma_a(input) == <<input.luminance, input.transparency>>

\* A mutation of RlePixelIterator_step: the pixel returned is not counted.
RlePixelIterator_step_run_not_counted(r) ==
    IF r.nb_remaining_pixels > 0
    THEN [r EXCEPT !.nb_remaining_pixels = @ - 1, !.out = Append(@, r.current_color)]
    ELSE LET read == read_next_pixel(r.raw_data) IN
         IF ~IsOk(read.item) THEN [r EXCEPT !.raw_data = read.raw_data, !.panic = read.item.err]
         ELSE IF IsNone(OkVal(read.item)) THEN [r EXCEPT !.raw_data = read.raw_data, !.done = TRUE]
         ELSE LET color_id == Unwrap(OkVal(read.item))[1]
                  nb_pixel == Unwrap(OkVal(read.item))[2]
                  entry == Palette_get(r.image.palette, color_id)
                  color == IF IsSome(entry) THEN pe_to_luma_a(Unwrap(entry)) ELSE r.default_color
              IN [r EXCEPT !.raw_data = read.raw_data, !.current_color = color,
                           !.nb_remaining_pixels = nb_pixel, !.out = Append(@, color)]

\* RlePixelIterator::next on the iterator r.  nb_pixel - 1 is u16 arithmetic:
\* for nb_pixel = 0 it panics with overflow checks and wraps without them.
RlePixelIterator_step(r) ==
    IF r.nb_remaining_pixels > 0
    THEN [r EXCEPT !.nb_remaining_pixels = @ - 1, !.out = Append(@, r.current_color)]
    ELSE LET read == read_next_pixel(r.raw_data) IN
         IF ~IsOk(read.item) THEN [r EXCEPT !.raw_data = read.raw_data, !.panic = read.item.err]
         ELSE IF IsNone(OkVal(read.item)) THEN [r EXCEPT !.raw_data = read.raw_data, !.done = TRUE]
         ELSE LET color_id == Unwrap(OkVal(read.item))[1]
                  nb_pixel == Unwrap(OkVal(read.item))[2]
                  entry == Palette_get(r.image.palette, color_id)
                  color == IF IsSome(entry) THEN pe_to_luma_a(Unwrap(entry)) ELSE r.default_color
              IN IF nb_pixel = 0 /\ r.overflow_checks
                 THEN [r EXCEPT !.raw_data = read.raw_data, !.current_color = color,
                                !.panic = "attempt to subtract with overflow"]
                 ELSE [r EXCEPT !.raw_data = read.raw_data, !.current_color = color,
                                !.nb_remaining_pixels = (nb_pixel - 1) % (U16_MAX + 1),
                                !.out = Append(@, color)]

\* size_hint: (width * height) as usize, in u32
size_hint(image) == image.width * image.height

\* Well-formed lines of raw data, by width, without the 00 00 that closes
\* them: single pixels, short runs of colour 0 and of a colour, long runs
WellFormedLines(width) ==
    CASE width = 2 -> {<<1, 2>>, <<0, 2>>, <<0, 130, 5>>}
      [] width = 3 -> {<<1, 0, 2>>, <<0, 131, 7>>}
      [] width = 64 -> {<<0, 64, 64>>, <<0, 192, 64, 1>>, <<0, 63, 2>>}

RECURSIVE WellFormedRaw(_, _)
WellFormedRaw(width, height) ==
    IF height = 0 THEN {<<>>}
    ELSE {line \o <<0, 0>> \o rest :
             line \in WellFormedLines(width), rest \in WellFormedRaw(width, height - 1)}

\* the palette of the images: entries of id 1 and 2
ImagePalette == Palette_new(<<Entry(1, 16), Entry(2, 235)>>)

WellFormedImages ==
    UNION {{RleEncodedImage_new(width, height, ImagePalette, raw) :
               raw \in WellFormedRaw(width, height)} :
           width \in {2, 3, 64}, height \in 1..MaxHeight}

\* into_iter() on an image
InitRle ==
    /\ stream = <<>>
    /\ closed = FALSE
    /\ dto = DtoIdle
    /\ dti = DtiIdle
    /\ call = CallIdle
    /\ subs = SubsIdle
    /\ pes = PesIdle
    /\ \E image \in WellFormedImages, c \in BOOLEAN :
          rle = [RleIdle EXCEPT !.image = image, !.overflow_checks = c,
                                !.raw_data = image.raw, !.done = FALSE]

\* RlePixelIterator::next, called until it returns None
RlePixelIterator_next ==
    /\ ~rle.done
    /\ rle.panic = ""
    /\ rle' = RlePixelIterator_step(rle)
    /\ UNCHANGED <<stream, closed, dto, dti, call, subs, pes>>

NextRle == RlePixelIterator_next
SpecRle == InitRle /\ [][NextRle]_vars

\* C16: on an image whose raw data is well formed, iterating until next
\* returns None yields exactly width * height pixels, the number size_hint
\* reports (and never more than that on the way).
C16_PixelCountIsSizeHint ==
    /\ rle.panic = ""
    /\ Len(rle.out) <= size_hint(rle.image)
    /\ rle.done => /\ Len(rle.out) = rle.image.width * rle.image.height
                   /\ Len(rle.out) = size_hint(rle.image)

\* C16 witness: the iteration ended on an image of 64 x 2 pixels whose two
\* lines are a long run and a short run followed by a single pixel.
C16_Witness ==
    /\ rle.done
    /\ rle.image.width = 64
    /\ rle.image.height = 2
    /\ Len(rle.out) = 128
    /\ rle.out[1] # rle.out[128]

----------------------------------------------------------------------------
(* pgs/pgs_image.rs: RlePixelIterator over raw data of any bytes *)

\* bytes of the raw data
MaxRawBytes == 4
\* pixels taken from the iterator
MaxPixels == 6

\* The bytes of the raw data: the marker 0; colours 1 (in the palette) and 3
\* (not in it); 2, the colour or a short count; the count bytes 64 (long,
\* colour 0, high bits 0), 128 (short, count 0, a colour follows),
\* 130 (short, count 2, a colour follows), 192 (long, a colour follows).
RawBytes == {0, 1, 2, 3, 64, 128, 130, 192}

RECURSIVE RawStrings(_)
RawStrings(n) ==
    IF n = 0 THEN {<<>>}
    ELSE RawStrings(n - 1)
         \cup {Append(r, b) : r \in {q \in RawStrings(n - 1) : Len(q) = n - 1}, b \in RawBytes}

\* into_iter() on an image whose raw data is any byte string
InitRleRaw ==
    /\ stream = <<>>
    /\ closed = FALSE
    /\ dto = DtoIdle
    /\ dti = DtiIdle
    /\ call = CallIdle
    /\ subs = SubsIdle
    /\ pes = PesIdle
    /\ \E raw \in RawStrings(MaxRawBytes), c \in BOOLEAN :
          rle = [RleIdle EXCEPT !.image = RleEncodedImage_new(2, 1, ImagePalette, raw),
                                !.overflow_checks = c,
                                !.raw_data = raw, !.done = FALSE]

\* RlePixelIterator::next, called until it returns None or MaxPixels pixels
\* were taken
RlePixelIterator_next_of_raw ==
    /\ ~rle.done
    /\ rle.panic = ""
    /\ Len(rle.out) < MaxPixels
    /\ rle' = RlePixelIterator_step(rle)
    /\ UNCHANGED <<stream, closed, dto, dti, call, subs, pes>>

NextRleRaw == RlePixelIterator_next_of_raw
SpecRleRaw == InitRleRaw /\ [][NextRleRaw]_vars

\* The code at the head of raw, read as the format defines it: its length
\* in bytes, its colour id and its number of pixels; whole is FALSE when
\* raw ends inside it.
ReferenceCode(raw) ==
    IF raw[1] # 0 THEN [whole |-> TRUE, len |-> 1, color |-> raw[1], n |-> 1]
    ELSE IF Len(raw) < 2 THEN [whole |-> FALSE, len |-> 1, color |-> 0, n |-> 0]
    ELSE IF raw[2] = 0 THEN [whole |-> TRUE, len |-> 2, color |-> 0, n |-> 0]
    ELSE LET b1 == raw[2]
             bit6 == (b1 \div 64) % 2
             bit7 == b1 \div 128
             len == 2 + bit6 + bit7
         IN IF Len(raw) < len THEN [whole |-> FALSE, len |-> len, color |-> 0, n |-> 0]
            ELSE [whole |-> TRUE, len |-> len,
                  color |-> IF bit7 = 1 THEN raw[len] ELSE 0,
                  n |-> IF bit6 = 1 THEN ((b1 % 64) * 256) + raw[3] ELSE b1 % 64]

\* raw is made of complete codes
RECURSIVE IsCompleteCodes(_)
IsCompleteCodes(raw) ==
    \/ raw = <<>>
    \/ /\ ReferenceCode(raw).whole
       /\ IsCompleteCodes(Drop(raw, ReferenceCode(raw).len))

\* the colour ids of the reference expansion of raw
RECURSIVE ReferenceExpansion(_)
ReferenceExpansion(raw) ==
    IF raw = <<>> \/ ~ReferenceCode(raw).whole THEN <<>>
    ELSE [i \in 1..ReferenceCode(raw).n |-> ReferenceCode(raw).color]
         \o ReferenceExpansion(Drop(raw, ReferenceCode(raw).len))

\* a colour id mapped through the palette of the image: the entry of that
\* id, the default colour when the palette has none
ReferencePixel(id) ==
    LET entries == rle.image.palette.entries
        found == {k \in DOMAIN entries : entries[k].palette_entry_id = id}
    IN IF found = {} THEN rle.default_color
       ELSE LET k == CHOOSE k \in found : TRUE
            IN <<entries[k].luminance, entries[k].transparency>>

ReferencePixels ==
    LET ids == ReferenceExpansion(rle.image.raw) IN
    [i \in 1..Len(ids) |-> ReferencePixel(ids[i])]

\* C26: for every raw byte string made of complete codes, the pixels the
\* iterator yields are the reference expansion of the codes, mapped through
\* the palette: what it has yielded so far is the start of the expansion,
\* and all of it once next has returned None.
C26_PixelsAreReferenceExpansion ==
    IsCompleteCodes(rle.image.raw) =>
        /\ rle.panic = ""
        /\ Len(rle.out) <= Len(ReferencePixels)
        /\ rle.out = Take(ReferencePixels, Len(rle.out))
        /\ rle.done => rle.out = ReferencePixels

\* C27: for every raw byte string, next returns Some or None: it does not
\* panic, the remaining-pixel counter stays below the largest count a code
\* can hold (it has not wrapped), and the iteration yields no pixel for a
\* run of count 0 and none after the end of the data.
C27_NextNeverPanicsNorWraps ==
    /\ rle.panic = ""
    /\ rle.nb_remaining_pixels < (64 * 256) - 1
    /\ Len(rle.out) <= Len(ReferencePixels)

----------------------------------------------------------------------------
(* vobsub/sub.rs: subtitle(), the parser of one subpicture *)

\* parse_be_u16_as_usize: Ok((rest, value)) or BufferTooSmallForU16
parse_be_u16_as_usize(buff) ==
    IF Len(buff) < 2 THEN Err("BufferTooSmallForU16")
    ELSE Ok([rest |-> Drop(buff, 2), val |-> (buff[1] * 256) + buff[2]])

\* palette_entries: four 4-bit values, in the order of the bits
palette_entries(input) ==
    IF ~has_bits(input, 0, 16) THEN NomError
    ELSE NomOk(Drop(input, 2), [k \in 1..4 |-> take_bits(input, 4 * (k - 1), 4)])

\* coordinate: a 12-bit value at bit position pos
coordinate(input, pos) == take_bits(input, pos, 12)

\* area: four 12-bit coordinates in the order x1, x2, y1, y2
parse_area(input) ==
    IF ~has_bits(input, 0, 48) THEN NomError
    ELSE NomOk(Drop(input, 6),
               AreaValues(coordinate(input, 0), coordinate(input, 24),
                          coordinate(input, 12), coordinate(input, 36)))

\* rle_offsets: a pair of 16-bit offsets
rle_offsets(input) ==
    IF ~has_bits(input, 0, 32) THEN NomError
    ELSE NomOk(Drop(input, 4), <<take_bits(input, 0, 16), take_bits(input, 16, 16)>>)

\* enum ControlCommand
ControlCommand(cmd, data) == [cmd |-> cmd, data |-> data]

\* bytes::complete::take_until(&[0xff]): the bytes before the first ff
RECURSIVE find_ff(_, _)
find_ff(input, k) ==
    IF k > Len(input) THEN 0
    ELSE IF input[k] = 255 THEN k
    ELSE find_ff(input, k + 1)

take_until_ff(input) ==
    LET k == find_ff(input, 1) IN
    IF k = 0 THEN NomError
    ELSE NomOk(Drop(input, k - 1), ControlCommand("Unsupported", Take(input, k - 1)))

\* control_command: alt over the command tags; an alternative whose tag
\* matches and whose operand fails gives way to the next one
control_command(input) ==
    LET tag == IF Len(input) >= 1 THEN input[1] ELSE -1
        operand == Drop(input, 1)
    IN IF tag = 0 THEN NomOk(operand, ControlCommand("Force", <<>>))
       ELSE IF tag = 1 THEN NomOk(operand, ControlCommand("StartDate", <<>>))
       ELSE IF tag = 2 THEN NomOk(operand, ControlCommand("StopDate", <<>>))
       ELSE IF tag = 3 /\ palette_entries(operand).tag = "Ok"
       THEN NomOk(palette_entries(operand).rest,
                  ControlCommand("Palette", palette_entries(operand).val))
       ELSE IF tag = 4 /\ palette_entries(operand).tag = "Ok"
       THEN NomOk(palette_entries(operand).rest,
                  ControlCommand("Alpha", palette_entries(operand).val))
       ELSE IF tag = 5 /\ parse_area(operand).tag = "Ok"
       THEN NomOk(parse_area(operand).rest,
                  ControlCommand("Coordinates", parse_area(operand).val))
       ELSE IF tag = 6 /\ rle_offsets(operand).tag = "Ok"
       THEN NomOk(rle_offsets(operand).rest,
                  ControlCommand("RleOffsets", rle_offsets(operand).val))
       ELSE take_until_ff(input)

\* control_command_end: tag ff
control_command_end(input) ==
    IF Len(input) >= 1 /\ input[1] = 255 THEN NomOk(Drop(input, 1), <<255>>) ELSE NomError

\* many_till(control_command, control_command_end)
RECURSIVE many_till(_, _)
many_till(input, res) ==
    IF control_command_end(input).tag = "Ok"
    THEN NomOk(control_command_end(input).rest, res)
    ELSE LET c == control_command(input) IN
         IF c.tag # "Ok" THEN NomError
         ELSE IF Len(c.rest) = Len(input) THEN NomError
         ELSE many_till(c.rest, Append(res, c.val))

\* control_sequence: be_u16 date, be_u16 next, commands up to the end tag
control_sequence(input) ==
    IF Len(input) < 4 THEN NomError
    ELSE LET commands == many_till(Drop(input, 4), <<>>) IN
         IF commands.tag # "Ok" THEN NomError
         ELSE NomOk(commands.rest,
                    [date |-> (input[1] * 256) + input[2],
                     next |-> (input[3] * 256) + input[4],
                     commands |-> commands.val])

\* A mutation of or: the later value is kept.
or_keeps_later(a, b) == IF IsSome(b) THEN b ELSE a

\* Option::or
or(a, b) == IF IsSome(a) THEN a ELSE b

\* what subtitle() collects from its control sequences
NothingFound ==
    [start_time |-> None, end_time |-> None, force |-> FALSE, area |-> None,
     palette |-> None, alpha |-> None, rle_offsets |-> None]

\* the for loop of subtitle() over the commands of one control sequence:
\* Ok(found) or the error of Area::try_from
RECURSIVE for_command(_, _, _, _)
for_command(commands, k, time, found) ==
    IF k > Len(commands) THEN Ok(found)
    ELSE LET command == commands[k] IN
         IF command.cmd = "Force"
         THEN for_command(commands, k + 1, time, [found EXCEPT !.force = TRUE])
         ELSE IF command.cmd = "StartDate"
         THEN for_command(commands, k + 1, time,
                          [found EXCEPT !.start_time = or(@, Some(time))])
         ELSE IF command.cmd = "StopDate"
         THEN for_command(commands, k + 1, time,
                          [found EXCEPT !.end_time = or(@, Some(time))])
         ELSE IF command.cmd = "Palette"
         THEN for_command(commands, k + 1, time,
                          [found EXCEPT !.palette = or(@, Some(command.data))])
         ELSE IF command.cmd = "Alpha"
         THEN for_command(commands, k + 1, time,
                          [found EXCEPT !.alpha = or(@, Some(command.data))])
         ELSE IF command.cmd = "Coordinates"
         THEN LET cmd_area == Area_try_from(command.data) IN
              IF ~IsOk(cmd_area) THEN cmd_area
              ELSE for_command(commands, k + 1, time,
                               [found EXCEPT !.area = or(@, Some(OkVal(cmd_area)))])
         ELSE IF command.cmd = "RleOffsets"
         THEN for_command(commands, k + 1, time,
                          [found EXCEPT !.rle_offsets = Some(command.data)])
         ELSE for_command(commands, k + 1, time, found)

\* the loop of subtitle() over the control sequences, from control_offset:
\* Ok(found) at the sequence that points at itself, or the error. Times are
\* in 1/100 s: base_time + date.
RECURSIVE control_loop(_, _, _, _)
control_loop(raw_data, base_time, control_offset, found) ==
    IF control_offset >= Len(raw_data) THEN Err("ControlOffsetBiggerThanPacket")
    ELSE LET control == control_sequence(Drop(raw_data, control_offset)) IN
         IF control.tag # "Ok" THEN Err("ControlSequence")
         ELSE LET after == for_command(control.val.commands, 1,
                                       base_time + control.val.date, found)
                  next_control_offset == control.val.next
              IN IF ~IsOk(after) THEN after
                 ELSE IF control_offset > next_control_offset
                 THEN Err("ControlOffsetWentBackwards")
                 ELSE IF control_offset = next_control_offset THEN after
                 ELSE control_loop(raw_data, base_time, next_control_offset, OkVal(after))

\* A mutation of subtitle_missing: the area is looked for first.
subtitle_missing_area_first(found) ==
    IF IsNone(found.area) THEN Err("ErrorMissing::Area")
    ELSE IF IsNone(found.start_time) THEN Err("ErrorMissing::StartTime")
    ELSE IF IsNone(found.palette) THEN Err("ErrorMissing::Palette")
    ELSE IF IsNone(found.alpha) THEN Err("ErrorMissing::AlphaPalette")
    ELSE IF IsNone(found.rle_offsets) THEN Err("ErrorMissing::RleOffset")
    ELSE Ok(found)

\* "Make sure we found all the control commands that we expect": the
\* ok_or(ErrorMissing::..)? lines of subtitle(), in their order
subtitle_missing(found) ==
    IF IsNone(found.start_time) THEN Err("ErrorMissing::StartTime")
    ELSE IF IsNone(found.area) THEN Err("ErrorMissing::Area")
    ELSE IF IsNone(found.palette) THEN Err("ErrorMissing::Palette")
    ELSE IF IsNone(found.alpha) THEN Err("ErrorMissing::AlphaPalette")
    ELSE IF IsNone(found.rle_offsets) THEN Err("ErrorMissing::RleOffset")
    ELSE Ok(found)

\* the end of subtitle(): the scan line offsets are checked, the image is
\* decompressed and the Subtitle is built. The coordinates are 12-bit, so
\* area.size() overflows in no build.
subtitle_image(raw_data, initial_control_offset, found) ==
    LET start_0 == Unwrap(found.rle_offsets)[1]
        start_1 == Unwrap(found.rle_offsets)[2]
        end == initial_control_offset + 2
    IN IF start_0 > start_1 \/ start_1 > end THEN Err("InvalidScanLineOffsets")
       ELSE IF end > Len(raw_data) THEN Panic("range end index out of range for slice")
       ELSE LET image == decompress(OkVal(Area_size(Unwrap(found.area), TRUE)),
                                    <<SubSeq(raw_data, start_0 + 1, end),
                                      SubSeq(raw_data, start_1 + 1, end)>>)
            IN IF ~IsOk(image) THEN image
               ELSE Ok([start_time |-> Unwrap(found.start_time),
                        end_time |-> found.end_time,
                        force |-> found.force,
                        area |-> Unwrap(found.area),
                        palette |-> Unwrap(found.palette),
                        alpha |-> Unwrap(found.alpha),
                        raw_image |-> OkVal(image)])

\* subtitle(raw_data, base_time)
subtitle(raw_data, base_time) ==
    IF Len(raw_data) < 2 THEN Err("UnexpectedEndOfSubtitleData")
    ELSE LET offset == parse_be_u16_as_usize(Drop(raw_data, 2)) IN
         IF ~IsOk(offset) THEN offset
         ELSE LET initial_control_offset == OkVal(offset).val
                  found == control_loop(raw_data, base_time, initial_control_offset,
                                        NothingFound)
              IN IF ~IsOk(found) THEN found
                 ELSE IF ~IsOk(subtitle_missing(OkVal(found)))
                 THEN subtitle_missing(OkVal(found))
                 ELSE subtitle_image(raw_data, initial_control_offset, OkVal(found))

\* a u16 as two big-endian bytes
be_u16_bytes(n) == <<n \div 256, n % 256>>

\* The commands a control sequence is built from, in this order, each one
\* present in one of its forms or absent (<<>>): Force, StartDate, Palette
\* (03 10 and 12 30), Alpha (ff f0), Coordinates (x 0..1, y 0..1; x 0..2,
\* y 0..1; and x1 = 1 > x2 = 0), RleOffsets (4, 5; 4, 6; 6, 4; 4, 4), an
\* unsupported command 07, a second Palette command, StopDate.
CommandSlots ==
    << {<<>>, <<0>>},
       {<<>>, <<1>>},
       {<<>>, <<3, 3, 16>>, <<3, 18, 48>>},
       {<<>>, <<4, 255, 240>>},
       {<<>>, <<5, 0, 0, 1, 0, 0, 1>>, <<5, 0, 0, 2, 0, 0, 1>>, <<5, 0, 16, 0, 0, 0, 1>>},
       {<<>>, <<6, 0, 4, 0, 5>>, <<6, 0, 4, 0, 6>>, <<6, 0, 6, 0, 4>>},
       {<<>>, <<7>>},
       {<<>>, <<3, 33, 0>>},
       {<<>>, <<2>>} >>

\* the byte strings of the commands of slots k..Len(CommandSlots)
RECURSIVE Commands(_)
Commands(k) ==
    IF k > Len(CommandSlots) THEN {<<>>}
    ELSE {c \o rest : c \in CommandSlots[k], rest \in Commands(k + 1)}

\* RLE data of a 2 x 2 image: lines (0, 1) and (2, 3) at offsets 4 and 5, or
\* lines filled with 3 and with 1 at offsets 4 and 6
RleData == {<<69, 103>>, <<0, 3, 0, 1>>}

\* Subpictures: the size field, the offset of the first control sequence,
\* the RLE data, and one control sequence of date 0 whose next field points
\* at itself, backwards (0) or past the packet (1000); or two control
\* sequences, the second one of date 100 with the StopDate command.
SubpicturesOfOne ==
    UNION {{<<0, 0>> \o be_u16_bytes(4 + Len(d)) \o d
               \o <<0, 0>> \o be_u16_bytes(n) \o c \o <<255>> :
               n \in {4 + Len(d), 0, 1000}, c \in Commands(1)} : d \in RleData}

SubpicturesOfTwo ==
    {<<0, 0>> \o be_u16_bytes(4 + Len(d)) \o d
        \o <<0, 0>> \o be_u16_bytes(4 + Len(d) + 4 + Len(c) + 1) \o c \o <<255>>
        \o <<0, 100>> \o be_u16_bytes(4 + Len(d) + 4 + Len(c) + 1) \o <<2, 255>> :
        d \in RleData, c \in Commands(1)}

\* Subpictures whose initial_control_offset is 2: there is no room for RLE
\* data, and the offset field is the date of the control sequence as well.
SubpicturesOfOffset2 ==
    {be_u16_bytes(s) \o <<0, 2>> \o be_u16_bytes(n) \o c \o <<255>> :
        s \in {0, 7}, n \in {2, 0, 1000}, c \in Commands(1)}

\* buffers too short for the offset field or for a control sequence
ShortSubpictures == {<<>>, <<0>>, <<0, 0>>, <<0, 0, 0>>, <<0, 0, 0, 2>>, <<0, 0, 0, 2, 0, 2>>}

Subpictures == SubpicturesOfOne \cup SubpicturesOfTwo \cup SubpicturesOfOffset2 \cup ShortSubpictures

\* the 16 colours of the palette of the *.idx file, one shade of grey each
IdxPalette == [i \in 1..16 |-> <<16 * (i - 1), 16 * (i - 1), 16 * (i - 1)>>]

InitSubtitle ==
    /\ stream = <<>>
    /\ closed = FALSE
    /\ dto = DtoIdle
    /\ dti = DtiIdle
    /\ subs = SubsIdle
    /\ pes = PesIdle
    /\ rle = RleIdle
    /\ \E d \in Subpictures :
          call = [op |-> "subtitle",
                  args |-> [raw_data |-> d, base_time |-> 0, palette |-> IdxPalette],
                  result |-> Pending]

Call_subtitle ==
    /\ call.op = "subtitle"
    /\ call.result.tag = "Pending"
    /\ call' = [call EXCEPT !.result = subtitle(call.args.raw_data, call.args.base_time)]
    /\ UNCHANGED <<stream, closed, dto, dti, subs, pes, rle>>

\* Subtitle::to_image: the pixels in row-major order, each Rgba as
\* <<rgb, alpha>>. The raw index is subtracted from 3.
Subtitle_to_image(self, palette) ==
    LET width == OkVal(Area_width(self.area, TRUE))
        height == OkVal(Area_height(self.area, TRUE))
    IN [offset \in 1..(width * height) |->
           LET px == 3 - self.raw_image[offset]
               rgb == palette[self.palette[px + 1] + 1]
               a == self.alpha[px + 1]
               aa == ((a * 16) % 256) + a
           IN <<rgb, aa>>]

\* VobSubIndexedImage::new
VobSubIndexedImage_new(area, palette, alpha, raw_image) ==
    [area |-> area, palette |-> palette, alpha |-> alpha, raw_image |-> raw_image]

\* conv_to_rgba
conv_to_rgba(color, alpha) == <<color, alpha>>

\* VobSubToImage::compute_palette_color: the colour of each of the 4 entries
compute_palette_color(indexed_img, palette) ==
    [i \in 1..4 |-> conv_to_rgba(palette[indexed_img.palette[i] + 1], indexed_img.alpha[i])]

\* VobSubToImage::to_image: the raw value is the index of the colour
VobSubToImage_to_image(indexed_img, palette) ==
    LET width == OkVal(Area_width(indexed_img.area, TRUE))
        height == OkVal(Area_height(indexed_img.area, TRUE))
        out_color_palette == compute_palette_color(indexed_img, palette)
    IN [offset \in 1..(width * height) |->
           out_color_palette[indexed_img.raw_image[offset] + 1]]

\* to_image called on the Subtitle that subtitle() returned
Call_Subtitle_to_image ==
    /\ call.op = "subtitle"
    /\ IsOk(call.result)
    /\ call' = [op |-> "Subtitle::to_image", args |-> call.args,
                result |-> Ok(Subtitle_to_image(OkVal(call.result), call.args.palette))]
    /\ UNCHANGED <<stream, closed, dto, dti, subs, pes, rle>>

\* VobSubToImage::to_image called on an indexed image of the area, the
\* quads and the pixels that subtitle() returned
Call_VobSubToImage_to_image ==
    /\ call.op = "subtitle"
    /\ IsOk(call.result)
    /\ LET sub == OkVal(call.result) IN
       call' = [op |-> "VobSubToImage::to_image", args |-> call.args,
                result |-> Ok(VobSubToImage_to_image(
                                 VobSubIndexedImage_new(sub.area, sub.palette, sub.alpha,
                                                        sub.raw_image),
                                 call.args.palette))]
    /\ UNCHANGED <<stream, closed, dto, dti, subs, pes, rle>>

NextSubtitle == Call_subtitle \/ Call_Subtitle_to_image \/ Call_VobSubToImage_to_image
SpecSubtitle == InitSubtitle /\ [][NextSubtitle]_vars

\* a subpicture whose initial_control_offset is 2 and whose control sequence,
\* at offset 2, points at itself (next = 2) and ends at once (ff): no
\* command, no RLE offsets, no RLE data
IsEmptySelfPointing(raw_data) ==
    Len(raw_data) >= 7 /\ SubSeq(raw_data, 3, 7) = <<0, 2, 0, 2, 255>>

\* C18, as stated: decoding a subpicture whose initial_control_offset is 2,
\* whose single control sequence has no commands and points at itself, and
\* which declares no RLE data, returns the error MissingArea.
C18_EmptySequenceIsMissingArea ==
    (call.op = "subtitle" /\ call.result.tag # "Pending"
        /\ IsEmptySelfPointing(call.args.raw_data)) =>
       call.result = Err("ErrorMissing::Area")

\* C18, amended: decoding such a subpicture returns the error
\* MissingStartTime, the start time being looked for before the area, and
\* does not panic.
C18_EmptySequenceIsMissingStartTime ==
    (call.op = "subtitle" /\ call.result.tag # "Pending"
        /\ IsEmptySelfPointing(call.args.raw_data)) =>
       call.result = Err("ErrorMissing::StartTime")

\* C18 witness: subtitle() has returned an error for such a subpicture of
\* 7 bytes whose size field says 7.
C18_Witness ==
    /\ call.op = "subtitle"
    /\ call.args.raw_data = <<0, 7, 0, 2, 0, 2, 255>>
    /\ call.result.tag = "Err"

\* the quads of the first Palette and the first Alpha command that the
\* control sequences of the subpicture hold
CommandQuads(raw_data, base_time) ==
    LET found == OkVal(control_loop(raw_data, base_time,
                                    OkVal(parse_be_u16_as_usize(Drop(raw_data, 2))).val,
                                    NothingFound))
    IN [palette |-> Unwrap(found.palette), alpha |-> Unwrap(found.alpha)]

Reversed(quad) == [k \in 1..4 |-> quad[5 - k]]

\* C20: a decoded subtitle hands off palette and alpha quads that are the
\* reversal of the nibbles of the Palette and Alpha commands, and a pixel of
\* raw value v is looked up as palette[v] and alpha[v], with no 3 - v, by
\* Subtitle::to_image.
C20_QuadsReversedOnceAtDecode ==
    LET sub == OkVal(subtitle(call.args.raw_data, call.args.base_time))
        quads == CommandQuads(call.args.raw_data, call.args.base_time)
    IN /\ (call.op = "subtitle" /\ IsOk(call.result)) =>
             /\ sub.palette = Reversed(quads.palette)
             /\ sub.alpha = Reversed(quads.alpha)
       /\ (call.op = "Subtitle::to_image") =>
             \A k \in 1..Len(sub.raw_image) :
                LET v == sub.raw_image[k] IN
                OkVal(call.result)[k] =
                   <<call.args.palette[sub.palette[v + 1] + 1], 17 * sub.alpha[v + 1]>>

----------------------------------------------------------------------------
(* vobsub/sub.rs: subtitle(), what it keeps of repeated control commands *)

\* A control command as the bytes control_command reads and as the value
\* it stands for
Command(kind, value, bytes) == [kind |-> kind, value |-> value, bytes |-> bytes]

CmdForce == Command("Force", <<>>, <<0>>)
CmdStartDate == Command("StartDate", <<>>, <<1>>)
CmdStopDate == Command("StopDate", <<>>, <<2>>)
CmdPalette1 == Command("Palette", <<0, 3, 1, 0>>, <<3, 3, 16>>)
CmdPalette2 == Command("Palette", <<1, 2, 3, 0>>, <<3, 18, 48>>)
CmdAlpha1 == Command("Alpha", <<15, 15, 15, 0>>, <<4, 255, 240>>)
CmdAlpha2 == Command("Alpha", <<0, 8, 15, 15>>, <<4, 8, 255>>)
CmdArea1 == Command("Coordinates", AreaValues(0, 0, 1, 1), <<5, 0, 0, 1, 0, 0, 1>>)
CmdArea2 == Command("Coordinates", AreaValues(0, 0, 2, 1), <<5, 0, 0, 2, 0, 0, 1>>)
CmdAreaBad == Command("Coordinates", AreaValues(1, 0, 0, 1), <<5, 0, 16, 0, 0, 0, 1>>)
CmdRle1 == Command("RleOffsets", <<4, 5>>, <<6, 0, 4, 0, 5>>)
CmdRle2 == Command("RleOffsets", <<4, 6>>, <<6, 0, 4, 0, 6>>)

\* the bytes of a list of commands
RECURSIVE CommandBytes(_)
CommandBytes(commands) ==
    IF commands = <<>> THEN <<>>
    ELSE Head(commands).bytes \o CommandBytes(Tail(commands))

\* Lists of commands: one command of each slot, or none (<<>>)
RECURSIVE CommandLists(_, _)
CommandLists(slots, k) ==
    IF k > Len(slots) THEN {<<>>}
    ELSE {c \o rest : c \in slots[k], rest \in CommandLists(slots, k + 1)}

\* the commands that come first, and the commands that repeat them
FirstSlots ==
    << {<<>>, <<CmdStartDate>>}, {<<>>, <<CmdPalette1>>}, {<<>>, <<CmdAlpha1>>},
       {<<>>, <<CmdArea1>>}, {<<>>, <<CmdRle1>>}, {<<>>, <<CmdStopDate>>} >>

RepeatSlots ==
    << {<<>>, <<CmdPalette2>>}, {<<>>, <<CmdAlpha2>>},
       {<<>>, <<CmdArea2>>, <<CmdAreaBad>>}, {<<>>, <<CmdRle2>>},
       {<<>>, <<CmdStartDate>>}, {<<>>, <<CmdStopDate>>}, {<<>>, <<CmdForce>>} >>

\* the date field of the second control sequence, in 1/100 s
SecondDate == 100

\* The subpicture that holds the RLE data 45 67 and the control sequences
\* of the two lists of commands: one sequence of date 0 with both lists
\* when split is FALSE; when it is TRUE a sequence of date 0 with the first
\* list that points at a sequence of date SecondDate with the second list.
\* The last sequence points at itself.
Subpicture(first, second, split) ==
    LET at == 6
        after == at + 4 + Len(CommandBytes(first)) + 1
    IN IF split
       THEN <<0, 0, 0, at, 69, 103>>
               \o <<0, 0>> \o be_u16_bytes(after) \o CommandBytes(first) \o <<255>>
               \o be_u16_bytes(SecondDate) \o be_u16_bytes(after)
               \o CommandBytes(second) \o <<255>>
       ELSE <<0, 0, 0, at, 69, 103>>
               \o <<0, 0>> \o be_u16_bytes(at) \o CommandBytes(first \o second) \o <<255>>

ControlArgs ==
    {[raw_data |-> Subpicture(first, second, split), base_time |-> 0,
      first |-> first, second |-> second, split |-> split] :
        first \in CommandLists(FirstSlots, 1), second \in CommandLists(RepeatSlots, 1),
        split \in BOOLEAN}

InitControl ==
    /\ stream = <<>>
    /\ closed = FALSE
    /\ dto = DtoIdle
    /\ dti = DtiIdle
    /\ subs = SubsIdle
    /\ pes = PesIdle
    /\ rle = RleIdle
    /\ \E a \in ControlArgs : call = [op |-> "subtitle", args |-> a, result |-> Pending]

NextControl == Call_subtitle
SpecControl == InitControl /\ [][NextControl]_vars

\* the commands of the call in their order, each with the time of its
\* control sequence
TimedCommands ==
    [k \in 1..(Len(call.args.first) + Len(call.args.second)) |->
        IF k <= Len(call.args.first)
        THEN [command |-> call.args.first[k], time |-> 0]
        ELSE [command |-> call.args.second[k - Len(call.args.first)],
              time |-> IF call.args.split THEN SecondDate ELSE 0]]

\* positions of the commands of a kind
Positions(kind) == {k \in 1..Len(TimedCommands) : TimedCommands[k].command.kind = kind}
Lowest(S) == CHOOSE k \in S : \A j \in S : k <= j
Highest(S) == CHOOSE k \in S : \A j \in S : k >= j

\* the list of commands without the one at position k, as a subpicture
Without(k) ==
    LET n == Len(call.args.first) IN
    IF k <= n
    THEN Subpicture([j \in 1..(n - 1) |-> call.args.first[IF j < k THEN j ELSE j + 1]],
                    call.args.second, call.args.split)
    ELSE Subpicture(call.args.first,
                    [j \in 1..(Len(call.args.second) - 1) |->
                        call.args.second[IF j < k - n THEN j ELSE j + 1]],
                    call.args.split)

\* C21: a decoded subtitle has the time of the first StartDate, of the first
\* StopDate, the first Palette, Alpha and Coordinates, the last RleOffsets
\* (as the image decoded from them) and force set exactly if a Force
\* occurs; and the sequence without a later duplicate Palette, Alpha or
\* Coordinates command decodes to the same output.
C21_FirstWinsLastRleOffsets ==
    (call.op = "subtitle" /\ IsOk(call.result)) =>
       LET sub == OkVal(call.result)
           first(kind) == TimedCommands[Lowest(Positions(kind))]
           last(kind) == TimedCommands[Highest(Positions(kind))]
       IN /\ sub.start_time = first("StartDate").time
          /\ sub.end_time = IF Positions("StopDate") = {} THEN None
                            ELSE Some(first("StopDate").time)
          /\ sub.palette = first("Palette").command.value
          /\ sub.alpha = first("Alpha").command.value
          /\ sub.area = first("Coordinates").command.value
          /\ sub.force = (Positions("Force") # {})
          /\ sub.raw_image =
                IF last("RleOffsets").command = CmdRle1
                THEN (IF sub.area = CmdArea1.value THEN <<0, 1, 2, 3>> ELSE <<0, 1, 2, 2, 3, 0>>)
                ELSE (IF sub.area = CmdArea1.value THEN <<0, 1, 0, 0>> ELSE <<0, 1, 2, 0, 0, 0>>)
          /\ \A kind \in {"Palette", "Alpha", "Coordinates"} :
                \A k \in Positions(kind) \ {Lowest(Positions(kind))} :
                   subtitle(Without(k), call.args.base_time) = call.result

\* C21 witness: a subtitle was decoded from two control sequences that hold
\* two Palette, two Alpha, two Coordinates and two RleOffsets commands.
C21_Witness ==
    /\ call.op = "subtitle"
    /\ IsOk(call.result)
    /\ "split" \in DOMAIN call.args
    /\ call.args.split
    /\ \A c \in {CmdPalette1, CmdAlpha1, CmdArea1, CmdRle1} :
          \E k \in 1..Len(call.args.first) : call.args.first[k] = c
    /\ \A c \in {CmdPalette2, CmdAlpha2, CmdArea2, CmdRle2} :
          \E k \in 1..Len(call.args.second) : call.args.second[k] = c

----------------------------------------------------------------------------
(* vobsub/mpeg2/clock.rs: Clock::base, with_ext, as_seconds *)

\* The u64 of a Clock is held in two parts, its bits 9 and up (high) and
\* its 9 low bits (low); high is itself a pair of a 17-bit and a 16-bit
\* number, the bits 25 and up and the bits 9 to 24 of the u64.

\* bitwise or of two naturals
RECURSIVE bit_or(_, _)
bit_or(a, b) ==
    IF a = 0 THEN b
    ELSE IF b = 0 THEN a
    ELSE (IF a % 2 = 1 \/ b % 2 = 1 THEN 1 ELSE 0) + (2 * bit_or(a \div 2, b \div 2))

\* Clock::base: value = stc << 9, for a stc of 33 bits
Clock_base(stc) == [high |-> stc, low |-> 0]

\* Clock::with_ext: value = self.value & !0x1f | u64::from(ext), for an ext
\* of 9 bits
Clock_with_ext(self, ext) ==
    [high |-> self.high, low |-> bit_or(self.low - (self.low % 32), ext)]

\* Clock::as_seconds: base = value >> 9, ext = value & 0x1F; the f64
\* (base + ext / 300.0) / 90000.0 is held as the pair of base and ext
Clock_as_seconds(self) == [base |-> self.high, ext |-> self.low % 32]

\* 33-bit bases: 0, 1, 2_815_200 (the PTS of the tests of pes.rs), 2^32
\* and 2^33 - 1
ClockBases == {<<0, 0>>, <<0, 1>>, <<42, 62688>>, <<65536, 0>>, <<131071, 65535>>}

\* 9-bit extensions
ClockExts == 0..511

InitClock ==
    /\ stream = <<>>
    /\ closed = FALSE
    /\ dto = DtoIdle
    /\ dti = DtiIdle
    /\ subs = SubsIdle
    /\ pes = PesIdle
    /\ rle = RleIdle
    /\ \E b \in ClockBases, e \in ClockExts :
          call = [op |-> "Clock::base", args |-> [stc |-> b, ext |-> e], result |-> Pending]

\* Clock::base(stc).with_ext(ext), as clock_and_ext builds a Clock
Call_Clock_with_ext ==
    /\ call.op = "Clock::base"
    /\ call' = [op |-> "Clock::with_ext", args |-> call.args,
                result |-> Ok(Clock_with_ext(Clock_base(call.args.stc), call.args.ext))]
    /\ UNCHANGED <<stream, closed, dto, dti, subs, pes, rle>>

\* as_seconds() of that Clock
Call_Clock_as_seconds ==
    /\ call.op = "Clock::with_ext"
    /\ call' = [op |-> "Clock::as_seconds", args |-> call.args,
                result |-> Ok(Clock_as_seconds(OkVal(call.result)))]
    /\ UNCHANGED <<stream, closed, dto, dti, subs, pes, rle>>

NextClock == Call_Clock_with_ext \/ Call_Clock_as_seconds
SpecClock == InitClock /\ [][NextClock]_vars

\* C22: for every 33-bit base b and every 9-bit extension e,
\* Clock::base(b).with_ext(e) stores both unchanged, and as_seconds()
\* evaluates (b + e / 300) / 90000: the base it reads back is b and the
\* extension it reads back is e.
C22_ClockKeepsBaseAndExt ==
    /\ call.op = "Clock::with_ext" =>
          OkVal(call.result) = [high |-> call.args.stc, low |-> call.args.ext]
    /\ call.op = "Clock::as_seconds" =>
          OkVal(call.result) = [base |-> call.args.stc, ext |-> call.args.ext]

----------------------------------------------------------------------------
(* vobsub/decoder.rs, vobsub/img.rs: a VobSubRleImage converted to a
   VobSubIndexedImage, and sub.rs subtitle(), on malformed RLE data *)

\* VobSubRleImageData::new: the two slices raw_data[start..end]
VobSubRleImageData_new(raw_data, offsets, end) ==
    IF offsets[1] > offsets[2] \/ offsets[2] > end THEN Err("InvalidScanLineOffsets")
    ELSE IF end > Len(raw_data) THEN Panic("range end index out of range for slice")
    ELSE Ok(<<SubSeq(raw_data, offsets[1] + 1, end), SubSeq(raw_data, offsets[2] + 1, end)>>)

\* VobSubRleImage::new
VobSubRleImage_new(area, palette, alpha, image_data) ==
    [area |-> area, palette |-> palette, alpha |-> alpha, image_data |-> image_data]

\* impl From<VobSubRleImage> for VobSubIndexedImage: decompress(..).unwrap()
VobSubIndexedImage_from(rle_image) ==
    LET converted(decompressed_image) ==
            IF ~IsOk(decompressed_image)
            THEN Panic("called Result::unwrap() on an Err value")
            ELSE Ok(VobSubIndexedImage_new(rle_image.area, rle_image.palette,
                                           rle_image.alpha, OkVal(decompressed_image)))
    IN converted(decompress(OkVal(Area_size(rle_image.area, TRUE)), rle_image.image_data))

\* VobSubDecoder::from_data for (TimeSpan, VobSubIndexedImage); times in
\* milliseconds
from_data(start_time, end_time, force, rle_image) ==
    LET output(image) ==
            IF ~IsOk(image) THEN image
            ELSE Ok([times |-> TimeSpan(start_time,
                                        IF IsSome(end_time) THEN Unwrap(end_time)
                                        ELSE DEFAULT_SUBTITLE_LENGTH),
                     image |-> OkVal(image)])
    IN output(VobSubIndexedImage_from(rle_image))

\* bytes of RLE data: 45 (runs 1 x 0, 1 x 1), 67 (runs 1 x 2, 1 x 3), c4 (a
\* run 3 x 0, then 1 x 0), 00 (with the byte after it: fill the line)
MalformedRleBytes == {69, 103, 196, 0}

\* The subpicture of two bytes of RLE data, a control sequence that holds
\* StartDate, Palette, Alpha, the area 0..x2, 0..y2 and the RLE offsets
\* start_0 and start_1
RleSubpicture(d, x2, y2, start_0, start_1) ==
    <<0, 0, 0, 6>> \o d \o <<0, 0, 0, 6>>
       \o CommandBytes(<<CmdStartDate, CmdPalette1, CmdAlpha1>>)
       \o <<5, 0, 0, x2, 0, 0, y2>> \o <<6, 0, start_0, 0, start_1>> \o <<255>>

RleImageArgs ==
    {[raw_data |-> RleSubpicture(<<b0, b1>>, x2, y2, 4, start_1), base_time |-> 0,
      area |-> AreaValues(0, 0, x2, y2), rle_offsets |-> <<4, start_1>>, end |-> 8] :
        b0 \in MalformedRleBytes, b1 \in MalformedRleBytes,
        x2 \in {1, 2}, y2 \in {1, 2, 3}, start_1 \in {4, 5, 6}}

InitRleImage ==
    /\ stream = <<>>
    /\ closed = FALSE
    /\ dto = DtoIdle
    /\ dti = DtiIdle
    /\ subs = SubsIdle
    /\ pes = PesIdle
    /\ rle = RleIdle
    /\ \E a \in RleImageArgs, op \in {"subtitle", "from_data"} :
          call = [op |-> op, args |-> a, result |-> Pending]

\* from_data on the VobSubRleImage of the area, the quads and the RLE data
\* of the subpicture
Call_from_data ==
    /\ call.op = "from_data"
    /\ call.result.tag = "Pending"
    /\ LET image_data == VobSubRleImageData_new(call.args.raw_data, call.args.rle_offsets,
                                                call.args.end)
       IN call' = [call EXCEPT !.result =
                     IF ~IsOk(image_data) THEN image_data
                     ELSE from_data(0, None, FALSE,
                                    VobSubRleImage_new(call.args.area, CmdPalette1.value,
                                                       CmdAlpha1.value, OkVal(image_data)))]
    /\ UNCHANGED <<stream, closed, dto, dti, subs, pes, rle>>

NextRleImage == Call_subtitle \/ Call_from_data
SpecRleImage == InitRleImage /\ [][NextRleImage]_vars

\* the RLE data of the call is malformed: decompress fails on it
IsMalformedRle ==
    LET image_data == VobSubRleImageData_new(call.args.raw_data, call.args.rle_offsets,
                                             call.args.end)
    IN ~IsOk(decompress(OkVal(Area_size(call.args.area, TRUE)), OkVal(image_data)))

\* C23: decoding a subpicture whose RLE data is malformed gives an error
\* value and no panic, by subtitle() and by from_data, which converts a
\* VobSubRleImage.
C23_MalformedRleIsError ==
    (call.op \in {"subtitle", "from_data"} /\ call.result.tag # "Pending" /\ IsMalformedRle) =>
       call.result.tag = "Err"

----------------------------------------------------------------------------
(* vobsub/sub.rs: subtitle() one control sequence at a time *)

\* A mutation of control_offset_cmp: a link that goes backwards is followed.
control_offset_cmp_follows_backwards(control_offset, next_control_offset, found) ==
    IF control_offset = next_control_offset
    THEN [pc |-> "break", control_offset |-> control_offset, found |-> found,
          result |-> Pending, looked |-> TRUE]
    ELSE [pc |-> "loop", control_offset |-> next_control_offset, found |-> found,
          result |-> Pending, looked |-> TRUE]

\* match control_offset.cmp(&next_control_offset): Greater returns the
\* error, Equal breaks out of the loop, Less goes on at the next offset
control_offset_cmp(control_offset, next_control_offset, found) ==
    IF control_offset > next_control_offset
    THEN [pc |-> "return", control_offset |-> control_offset, found |-> found,
          result |-> Err("ControlOffsetWentBackwards"), looked |-> TRUE]
    ELSE IF control_offset = next_control_offset
    THEN [pc |-> "break", control_offset |-> control_offset, found |-> found,
          result |-> Pending, looked |-> TRUE]
    ELSE [pc |-> "loop", control_offset |-> next_control_offset, found |-> found,
          result |-> Pending, looked |-> TRUE]

\* A mutation of control_step: an offset equal to the length of the packet
\* passes the check.
control_step_off_by_one(raw_data, base_time, control_offset, found) ==
    LET return(err, looked) ==
            [pc |-> "return", control_offset |-> control_offset, found |-> found,
             result |-> err, looked |-> looked]
        interpreted(control, after) ==
            IF ~IsOk(after) THEN return(after, TRUE)
            ELSE control_offset_cmp(control_offset, control.val.next, OkVal(after))
        parsed(control) ==
            IF control.tag # "Ok" THEN return(Err("ControlSequence"), TRUE)
            ELSE interpreted(control, for_command(control.val.commands, 1,
                                                  base_time + control.val.date, found))
    IN IF control_offset > Len(raw_data)
       THEN return(Err("ControlOffsetBiggerThanPacket"), FALSE)
       ELSE parsed(control_sequence(Drop(raw_data, control_offset)))

\* One turn of the loop of subtitle() over the control sequences, at
\* control_offset with what was found so far: where the function goes next
\* (the loop again, the code after the loop, or a return), with which
\* offset, findings and result, and whether a control sequence was looked
\* for at control_offset.
control_step(raw_data, base_time, control_offset, found) ==
    LET return(err, looked) ==
            [pc |-> "return", control_offset |-> control_offset, found |-> found,
             result |-> err, looked |-> looked]
        interpreted(control, after) ==
            IF ~IsOk(after) THEN return(after, TRUE)
            ELSE control_offset_cmp(control_offset, control.val.next, OkVal(after))
        parsed(control) ==
            IF control.tag # "Ok" THEN return(Err("ControlSequence"), TRUE)
            ELSE interpreted(control, for_command(control.val.commands, 1,
                                                  base_time + control.val.date, found))
    IN IF control_offset >= Len(raw_data)
       THEN return(Err("ControlOffsetBiggerThanPacket"), FALSE)
       ELSE parsed(control_sequence(Drop(raw_data, control_offset)))

\* the highest offset a link of the packets points at, short of 300
MaxOffset == 16

\* the offsets the links point at: every offset up to MaxOffset, and 300
WalkOffsets == (0..MaxOffset) \cup {300}

\* a control sequence of date 0: its link, its commands, the end tag
WalkSequence(next, commands) == <<0, 0>> \o be_u16_bytes(next) \o commands \o <<255>>

\* Packets of two control sequences, at offset 4 and at 9 or 10, with a
\* StartDate or no command and with a Force or no command, whose links and
\* whose initial offset are any offset; packets of three control sequences
\* without commands, at 4, 9 and 14, whose links and initial offset are the
\* start of a sequence, 0, the length of the packet or 300; packets too
\* short for the initial offset.
WalkPackets ==
    {<<0, 0>> \o be_u16_bytes(i0) \o WalkSequence(n1, c1) \o WalkSequence(n2, c2) :
        i0 \in WalkOffsets, n1 \in WalkOffsets, n2 \in WalkOffsets,
        c1 \in {<<>>, <<1>>}, c2 \in {<<>>, <<0>>}}
    \cup
    {<<0, 0>> \o be_u16_bytes(i0) \o WalkSequence(n1, <<>>) \o WalkSequence(n2, <<>>)
         \o WalkSequence(n3, <<>>) :
        i0 \in {0, 4, 9, 14, 19, 300}, n1 \in {0, 4, 9, 14, 19, 300},
        n2 \in {0, 4, 9, 14, 19, 300}, n3 \in {0, 4, 9, 14, 19, 300}}
    \cup {<<>>, <<0>>, <<0, 0>>, <<0, 0, 0>>}

InitWalk ==
    /\ stream = <<>>
    /\ closed = FALSE
    /\ dto = DtoIdle
    /\ dti = DtiIdle
    /\ subs = SubsIdle
    /\ pes = PesIdle
    /\ rle = RleIdle
    /\ \E d \in WalkPackets :
          call = [op |-> "subtitle", pc |-> "start",
                  args |-> [raw_data |-> d, base_time |-> 0],
                  initial_control_offset |-> 0, control_offset |-> 0,
                  found |-> NothingFound, visited |-> <<>>, result |-> Pending]

\* subtitle(): the initial control offset is read and the loop is entered
Subtitle_start ==
    /\ call.op = "subtitle"
    /\ call.pc = "start"
    /\ LET entered(offset) ==
               IF ~IsOk(offset) THEN [call EXCEPT !.pc = "return", !.result = offset]
               ELSE [call EXCEPT !.pc = "loop",
                                 !.initial_control_offset = OkVal(offset).val,
                                 !.control_offset = OkVal(offset).val]
       IN call' = IF Len(call.args.raw_data) < 2
                  THEN [call EXCEPT !.pc = "return",
                                    !.result = Err("UnexpectedEndOfSubtitleData")]
                  ELSE entered(parse_be_u16_as_usize(Drop(call.args.raw_data, 2)))
    /\ UNCHANGED <<stream, closed, dto, dti, subs, pes, rle>>

\* subtitle(): one turn of the loop over the control sequences
Subtitle_loop ==
    /\ call.op = "subtitle"
    /\ call.pc = "loop"
    /\ LET turned(step) ==
               [call EXCEPT !.pc = step.pc,
                            !.control_offset = step.control_offset,
                            !.found = step.found,
                            !.result = step.result,
                            !.visited = IF step.looked THEN Append(@, call.control_offset)
                                        ELSE @]
       IN call' = turned(control_step(call.args.raw_data, call.args.base_time,
                                      call.control_offset, call.found))
    /\ UNCHANGED <<stream, closed, dto, dti, subs, pes, rle>>

\* subtitle(): after the loop, what was found is checked and the image is
\* decoded
Subtitle_end ==
    /\ call.op = "subtitle"
    /\ call.pc = "break"
    /\ call' = [call EXCEPT !.pc = "return",
                            !.result = IF ~IsOk(subtitle_missing(call.found))
                                       THEN subtitle_missing(call.found)
                                       ELSE subtitle_image(call.args.raw_data,
                                                           call.initial_control_offset,
                                                           call.found)]
    /\ UNCHANGED <<stream, closed, dto, dti, subs, pes, rle>>

NextWalk == Subtitle_start \/ Subtitle_loop \/ Subtitle_end
SpecWalk == InitWalk /\ [][NextWalk]_vars

\* the link of the control sequence at offset o of the packet
NextOffsetAt(raw_data, o) == (raw_data[o + 3] * 256) + raw_data[o + 4]

\* the control sequence at offset o of the packet parses and its commands
\* are interpreted without error
IsInterpretedAt(raw_data, o) ==
    /\ control_sequence(Drop(raw_data, o)).tag = "Ok"
    /\ \A k \in DOMAIN control_sequence(Drop(raw_data, o)).val.commands :
          LET command == control_sequence(Drop(raw_data, o)).val.commands[k] IN
          command.cmd = "Coordinates" => IsOk(Area_try_from(command.data))

\* C28: at each control sequence of the walk: a current offset >= the
\* length of the buffer gives ControlOffsetBiggerThanPacket; otherwise, once
\* its commands are interpreted, a link equal to the current offset ends
\* the walk, a lower link fails with ControlOffsetWentBackwards, a higher
\* link moves the walk there; and once the walk has ended no command is
\* interpreted any more (what was found and visited stays).
C28_WalkFollowsTheLinks ==
    [][/\ (call.pc = "loop" /\ call.control_offset >= Len(call.args.raw_data)) =>
              /\ call'.result = Err("ControlOffsetBiggerThanPacket")
              /\ call'.visited = call.visited
              /\ call'.found = call.found
       /\ (/\ call.pc = "loop"
           /\ call.control_offset < Len(call.args.raw_data)
           /\ IsInterpretedAt(call.args.raw_data, call.control_offset)) =>
              LET o == call.control_offset
                  next_offset == NextOffsetAt(call.args.raw_data, o)
              IN /\ call'.visited = Append(call.visited, o)
                 /\ next_offset = o =>
                       call'.pc = "break" /\ call'.result = Pending
                 /\ next_offset < o =>
                       call'.pc = "return"
                       /\ call'.result = Err("ControlOffsetWentBackwards")
                 /\ next_offset > o =>
                       /\ call'.pc = "loop"
                       /\ call'.control_offset = next_offset
                       /\ call'.result = Pending
       /\ call.pc \in {"break", "return"} =>
              /\ call'.found = call.found
              /\ call'.visited = call.visited
              /\ call'.pc = "return"
      ]_vars

\* C28 witness: the walk interpreted the StartDate of the sequence at 4,
\* moved to the sequence at 10, interpreted its Force and ended there on
\* the link that points at 10; the sequence at 4 was not visited again.
C28_Witness ==
    /\ call.op = "subtitle"
    /\ call.pc = "break"
    /\ call.visited = <<4, 10>>
    /\ NextOffsetAt(call.args.raw_data, 4) = 10
    /\ NextOffsetAt(call.args.raw_data, 10) = 10
    /\ call.found.start_time = Some(0)
    /\ call.found.force

\* C29: the offsets at which the walk looks for a control sequence are
\* strictly increasing and below the length of the buffer, so the walk
\* interprets at most len(buffer) control sequences; while it goes on, the
\* offset it turns to is above every offset visited, so no cycle of links
\* makes it loop.
C29_WalkOffsetsIncrease ==
    call.op = "subtitle" =>
        /\ \A k \in DOMAIN call.visited : call.visited[k] < Len(call.args.raw_data)
        /\ \A k \in DOMAIN call.visited :
              k < Len(call.visited) => call.visited[k] < call.visited[k + 1]
        /\ Len(call.visited) <= Len(call.args.raw_data)
        /\ (call.pc = "loop" /\ call.visited # <<>>) =>
              call.control_offset > call.visited[Len(call.visited)]

\* C29 witness: the walk visited the three control sequences of a packet,
\* at 4, 9 and 14, and returned.
C29_Witness ==
    /\ call.op = "subtitle"
    /\ call.pc = "return"
    /\ call.visited = <<4, 9, 14>>
    /\ Len(call.args.raw_data) = 19

----------------------------------------------------------------------------
(* vobsub/img.rs: scan_line on one line of any width *)

\* pixels of the line
MaxWidth == 5

\* The bytes of the input: 00 (with 00 or 03 after it: fill the line), 03
\* (count 0 in 4 bits), 10 (run of 4 x 0 in 2 nibbles), 3f (run of 15 x 3),
\* 54 (runs 1 x 1, 1 x 0), 97 (runs 2 x 1, 1 x 3), ff (runs 3 x 3, 3 x 3)
ScanLineBytes == {0, 3, 16, 63, 84, 151, 255}

RECURSIVE ScanLineInputs(_)
ScanLineInputs(n) ==
    IF n = 0 THEN {<<>>}
    ELSE ScanLineInputs(n - 1) \cup
         {Append(b, x) : b \in {c \in ScanLineInputs(n - 1) : Len(c) = n - 1},
                         x \in ScanLineBytes}

InitScanLine ==
    /\ stream = <<>>
    /\ closed = FALSE
    /\ dto = DtoIdle
    /\ dti = DtiIdle
    /\ subs = SubsIdle
    /\ pes = PesIdle
    /\ rle = RleIdle
    /\ \E input \in ScanLineInputs(MaxRleBytes + 1), width \in 0..MaxWidth :
          call = [op |-> "scan_line", args |-> [input |-> input, width |-> width],
                  result |-> Pending]

\* scan_line(input, output) on a line of width pixels of a new image
Call_scan_line ==
    /\ call.op = "scan_line"
    /\ call.result.tag = "Pending"
    /\ call' = [call EXCEPT !.result = scan_line(call.args.input,
                                                 [k \in 1..call.args.width |-> 0])]
    /\ UNCHANGED <<stream, closed, dto, dti, subs, pes, rle>>

NextScanLine == Call_scan_line
SpecScanLine == InitScanLine /\ [][NextScanLine]_vars

\* Reading the runs of input from bit pos with x pixels of the line
\* written: a run of explicit count (cnt # 0) is met, while the line is not
\* full, that would end past the width.
RECURSIVE RunOverruns(_, _, _, _)
RunOverruns(input, pos, x, width) ==
    /\ x < width
    /\ rle_run(input, pos).tag = "Ok"
    /\ rle_run(input, pos).val.cnt # 0
    /\ \/ x + rle_run(input, pos).val.cnt > width
       \/ RunOverruns(input, rle_run(input, pos).pos, x + rle_run(input, pos).val.cnt, width)

\* a scan_line call that returned, on an input with such a run
IsOverrun ==
    /\ call.op = "scan_line"
    /\ call.result.tag # "Pending"
    /\ RunOverruns(call.args.input, 0, 0, call.args.width)

\* C30 as stated: scan_line fails with ScanLineLongerThanWidth whenever a
\* decoded run of explicit count would extend past the width of the line.
C30_OverrunIsScanLineLongerThanWidth ==
    IsOverrun => call.result = Err("ScanLineLongerThanWidth")

\* C30 amended: scan_line fails with ToSmallOutput whenever a decoded run of
\* explicit count would extend past the width of the line, and it writes
\* no pixel beyond the line: it does not panic, and a line it returns has
\* the width of the output.
C30_OverrunIsToSmallOutput ==
    /\ IsOverrun => call.result = Err("ToSmallOutput")
    /\ (call.op = "scan_line" /\ call.result.tag # "Pending") =>
          /\ call.result.tag \in {"Ok", "Err"}
          /\ IsOk(call.result) => Len(OkVal(call.result).output) = call.args.width

\* C30 witness: on a line of 4 pixels and the input ff, a run of 3 pixels
\* is written and the next run of 3 would end at 6: the call failed.
C30_Witness ==
    /\ IsOverrun
    /\ call.args.width = 4
    /\ call.args.input = <<255>>
    /\ call.result.tag = "Err"

----------------------------------------------------------------------------
(* vobsub/img.rs: rle on any two bytes, and scan_line *)

\* The second byte of the input of rle: zero bits, counts and values
SecondBytes == {0, 1, 2, 3, 4, 16, 63, 64, 128, 255}

\* The inputs of rle: nothing, any byte, any byte with a second byte
RunInputs ==
    {<<>>} \cup {<<a>> : a \in 0..255}
           \cup {<<a, b>> : a \in 0..255, b \in SecondBytes}

InitRun ==
    /\ stream = <<>>
    /\ closed = FALSE
    /\ dto = DtoIdle
    /\ dti = DtiIdle
    /\ subs = SubsIdle
    /\ pes = PesIdle
    /\ rle = RleIdle
    /\ \/ \E input \in RunInputs, pos \in {0, 4} :
             call = [op |-> "rle", args |-> [input |-> input, pos |-> pos],
                     result |-> Pending]
       \/ \E input \in ScanLineInputs(MaxRleBytes), width \in 0..MaxWidth :
             call = [op |-> "scan_line", args |-> [input |-> input, width |-> width],
                     result |-> Pending]

\* rle((input, pos))
Call_rle ==
    /\ call.op = "rle"
    /\ call.result.tag = "Pending"
    /\ call' = [call EXCEPT !.result = rle_run(call.args.input, call.args.pos)]
    /\ UNCHANGED <<stream, closed, dto, dti, subs, pes, rle>>

NextRun == Call_rle \/ Call_scan_line
SpecRun == InitRun /\ [][NextRun]_vars

\* The run at bit pos of input as the format defines it, codes tried longest
\* first: the bits of its count code, its count and its value; none when
\* the bits left hold no code with its value.
ReferenceRun(input, pos) ==
    LET left == (8 * Len(input)) - pos
        zeros(n) == left >= n /\ \A i \in 0..(n - 1) : bit_at(input, pos + i) = 0
        number(from, n) == take_bits(input, pos + from, n)
        code == IF zeros(14) THEN [bits |-> 14, cnt |-> 0]
                ELSE IF zeros(6) /\ left >= 14 THEN [bits |-> 14, cnt |-> number(6, 8)]
                ELSE IF zeros(4) /\ left >= 10 THEN [bits |-> 10, cnt |-> number(4, 6)]
                ELSE IF zeros(2) /\ left >= 6 THEN [bits |-> 6, cnt |-> number(2, 4)]
                ELSE IF left >= 2 THEN [bits |-> 2, cnt |-> number(0, 2)]
                ELSE [bits |-> 0, cnt |-> 0]
    IN IF code.bits = 0 \/ left < code.bits + 2 THEN BitsError
       ELSE BitsOk(pos + code.bits + 2,
                   [cnt |-> code.cnt, val |-> number(code.bits, 2)])

\* the pixels of a line of width pixels that the runs of input give: a run
\* of count 0 fills the line from x, a run of count c gives c pixels
RECURSIVE ReferenceLine(_, _, _, _)
ReferenceLine(input, pos, x, width) ==
    IF x >= width \/ ReferenceRun(input, pos).tag # "Ok" THEN <<>>
    ELSE LET run == ReferenceRun(input, pos)
             n == IF run.val.cnt = 0 THEN width - x ELSE run.val.cnt
         IN [i \in 1..n |-> run.val.val] \o ReferenceLine(input, run.pos, x + n, width)

\* C32: the run parser tries the codes longest first (14 zero bits: count
\* 0; 6 zero bits and an 8-bit count; 4 zero bits and a 6-bit count; 2 zero
\* bits and a 4-bit count; a 2-bit count), the next 2 bits are the value;
\* and in a line scan_line returns, a run of count 0 fills the line from
\* the current x to the width and a run of count c writes exactly c pixels.
C32_RunCodesLongestFirst ==
    /\ (call.op = "rle" /\ call.result.tag # "Pending") =>
          call.result = ReferenceRun(call.args.input, call.args.pos)
    /\ (call.op = "scan_line" /\ IsOk(call.result)) =>
          OkVal(call.result).output = ReferenceLine(call.args.input, 0, 0, call.args.width)

\* C32 witness: rle on 09 40 read 4 zero bits, the 6-bit count 100101 = 37
\* and the value 0, 12 bits in all.
C32_Witness ==
    /\ call.op = "rle"
    /\ call.args.input = <<9, 64>>
    /\ call.args.pos = 0
    /\ call.result = BitsOk(12, [cnt |-> 37, val |-> 0])

----------------------------------------------------------------------------
(* vobsub/mpeg2/ps.rs: PesPackets::next one turn of its loop at a time *)

\* A mutation of PesPackets_step: after a framing that fails to parse the
\* search resumes one byte after the start of the sync bytes.
PesPackets_step_resumes_next_byte(remaining) ==
    LET match(found, r) ==
            CASE r.tag = "Ok" ->
                   [remaining |-> r.rest, item |-> Some(Ok(r.val)), returned |-> TRUE]
              [] r.tag = "Incomplete" ->
                   [remaining |-> <<>>, item |-> Some(Err("PESPacket(IncompleteInput)")),
                    returned |-> TRUE]
              [] r.tag = "Error" ->
                   [remaining |-> Drop(found, 1), item |-> None, returned |-> FALSE]
        at(found) == match(found, pes_packet(found))
        from(start) ==
            IF IsNone(start) THEN [remaining |-> <<>>, item |-> None, returned |-> TRUE]
            ELSE at(Drop(remaining, Unwrap(start)))
    IN from(position(remaining, 0))

\* One turn of the loop of PesPackets::next on self.remaining: the new
\* self.remaining, and the item when the turn returns one
PesPackets_step(remaining) ==
    LET match(found, r) ==
            CASE r.tag = "Ok" ->
                   [remaining |-> r.rest, item |-> Some(Ok(r.val)), returned |-> TRUE]
              [] r.tag = "Incomplete" ->
                   [remaining |-> <<>>, item |-> Some(Err("PESPacket(IncompleteInput)")),
                    returned |-> TRUE]
              [] r.tag = "Error" ->
                   [remaining |-> Drop(found, 4), item |-> None, returned |-> FALSE]
        at(found) == match(found, pes_packet(found))
        from(start) ==
            IF IsNone(start) THEN [remaining |-> <<>>, item |-> None, returned |-> TRUE]
            ELSE at(Drop(remaining, Unwrap(start)))
    IN from(position(remaining, 0))

\* calls of next that return None
MaxNoneCalls == 2

\* the items next has returned that are None
NoneReturned(out) == Len(SelectSeq(out, IsNone))

InitPesSteps ==
    /\ stream = <<>>
    /\ closed = FALSE
    /\ dto = DtoIdle
    /\ dti = DtiIdle
    /\ call = CallIdle
    /\ subs = SubsIdle
    /\ rle = RleIdle
    /\ \E i \in Inputs(MaxChunks) :
          pes = [input |-> i.bytes, packets |-> i.packets, remaining |-> i.bytes,
                 out |-> <<>>, done |-> FALSE, pc |-> "idle", resumed |-> 0]

\* PesPackets::next is called: the loop is entered
PesPackets_next_call ==
    /\ pes.pc = "idle"
    /\ NoneReturned(pes.out) < MaxNoneCalls
    /\ pes' = [pes EXCEPT !.pc = "loop"]
    /\ UNCHANGED <<stream, closed, dto, dti, call, subs, rle>>

\* one turn of the loop: out takes the Option the call returns, resumed
\* counts the turns that went on after a framing that failed to parse
PesPackets_next_turn ==
    /\ pes.pc = "loop"
    /\ LET turned(step) ==
               [pes EXCEPT !.remaining = step.remaining,
                           !.out = IF step.returned THEN Append(@, step.item) ELSE @,
                           !.done = step.returned /\ IsNone(step.item),
                           !.pc = IF step.returned THEN "idle" ELSE "loop",
                           !.resumed = IF step.returned THEN @ ELSE @ + 1]
       IN pes' = turned(PesPackets_step(pes.remaining))
    /\ UNCHANGED <<stream, closed, dto, dti, call, subs, rle>>

NextPesSteps == PesPackets_next_call \/ PesPackets_next_turn
SpecPesSteps == InitPesSteps /\ [][NextPesSteps]_vars

\* the input from the first sync bytes 00 00 01 ba of remaining on
FromStartCode(remaining) == Drop(remaining, Unwrap(position(remaining, 0)))

\* the item of a truncated packet
IsIncompleteItem(item) == item = Some(Err("PESPacket(IncompleteInput)"))

\* C33: in a turn of the loop of next, a framing that fails to parse makes
\* the scan go on, in the same call, exactly 4 bytes after the start code;
\* a truncated packet makes the call return the error, and every call after
\* it returns None; and a turn that does not return leaves strictly less
\* input, so every call ends.
C33_ResumeAfterFourBytesOrEnd ==
    /\ [][(pes.pc = "loop" /\ IsSome(position(pes.remaining, 0))) =>
             /\ pes_packet(FromStartCode(pes.remaining)).tag = "Error" =>
                   /\ pes'.pc = "loop"
                   /\ pes'.out = pes.out
                   /\ pes'.remaining = Drop(FromStartCode(pes.remaining), 4)
             /\ pes_packet(FromStartCode(pes.remaining)).tag = "Incomplete" =>
                   /\ pes'.pc = "idle"
                   /\ pes'.out = Append(pes.out, Some(Err("PESPacket(IncompleteInput)")))
         ]_vars
    /\ [][(pes.pc = "loop" /\ pes'.pc = "loop") => Len(pes'.remaining) < Len(pes.remaining)]_vars
    /\ [](\A j, k \in DOMAIN pes.out :
             (j < k /\ IsIncompleteItem(pes.out[j])) => IsNone(pes.out[k]))

\* C33 witness: the scan went on after a framing that failed to parse, a
\* packet was returned, then the error of a truncated packet, then None
\* twice.
C33_Witness ==
    /\ pes.pc = "idle"
    /\ pes.resumed >= 1
    /\ Len(pes.out) = 4
    /\ IsSome(pes.out[1]) /\ IsOk(Unwrap(pes.out[1]))
    /\ IsIncompleteItem(pes.out[2])
    /\ IsNone(pes.out[3])
    /\ IsNone(pes.out[4])

----------------------------------------------------------------------------
(* vobsub/sub.rs: SubtitlesInternal::next over the items of PesPackets *)

\* what PesPackets::next returns, one after the other, before None
MaxPesItems == 3

\* a ps::PesPacket: the fields SubtitlesInternal reads. pts is the
\* as_seconds() of the PTS in 1/100 s, None without pts_dts.
PesPacket(substream_id, pts, data) ==
    [substream_id |-> substream_id, pts |-> pts, data |-> data]

RECURSIVE while_wanted(_, _, _, _)
\* A mutation of while_wanted: the substream of a packet is not looked at.
while_wanted_any_substream(pes_packets, substream_id, wanted, sub_packet) ==
    IF Len(sub_packet) >= wanted
    THEN [pes_packets |-> pes_packets, item |-> None, sub_packet |-> Some(sub_packet)]
    ELSE IF pes_packets = <<>>
    THEN [pes_packets |-> <<>>, item |-> Some(None), sub_packet |-> None]
    ELSE IF ~IsOk(Head(pes_packets))
    THEN [pes_packets |-> Tail(pes_packets), item |-> Some(Some(Head(pes_packets))),
          sub_packet |-> None]
    ELSE while_wanted(Tail(pes_packets), substream_id, wanted,
                      sub_packet \o OkVal(Head(pes_packets)).data)

\* "Keep fetching more packets until we have enough": the while loop of
\* SubtitlesInternal::next. item is Some(what next returns) when try_iter
\* returns from inside the loop; otherwise sub_packet is the buffer gathered.
while_wanted(pes_packets, substream_id, wanted, sub_packet) ==
    IF Len(sub_packet) >= wanted
    THEN [pes_packets |-> pes_packets, item |-> None, sub_packet |-> Some(sub_packet)]
    ELSE IF pes_packets = <<>>
    THEN [pes_packets |-> <<>>, item |-> Some(None), sub_packet |-> None]
    ELSE IF ~IsOk(Head(pes_packets))
    THEN [pes_packets |-> Tail(pes_packets), item |-> Some(Some(Head(pes_packets))),
          sub_packet |-> None]
    ELSE IF OkVal(Head(pes_packets)).substream_id # substream_id
    THEN while_wanted(Tail(pes_packets), substream_id, wanted, sub_packet)
    ELSE while_wanted(Tail(pes_packets), substream_id, wanted,
                      sub_packet \o OkVal(Head(pes_packets)).data)

\* SubtitlesInternal::next after the while loop: what try_iter returned
\* from inside the loop, or the buffer is cut to wanted bytes ("Check to
\* make sure we didn't get too many bytes") and passed to subtitle()
SubtitlesInternal_parse(gathered, wanted, base_time) ==
    IF IsSome(gathered.item)
    THEN [pes_packets |-> gathered.pes_packets, item |-> Unwrap(gathered.item),
          sub_packet |-> None]
    ELSE [pes_packets |-> gathered.pes_packets,
          item |-> Some(subtitle(Take(Unwrap(gathered.sub_packet), wanted), base_time)),
          sub_packet |-> Some(Take(Unwrap(gathered.sub_packet), wanted))]

\* SubtitlesInternal::next from its first packet on: the PTS and the size
\* of the subpicture are read from it, then the packets are gathered
SubtitlesInternal_first(first, pes_packets) ==
    IF IsNone(first.pts)
    THEN [pes_packets |-> pes_packets, item |-> Some(Err("MissingTimingForSubtitle")),
          sub_packet |-> None]
    ELSE IF Len(first.data) < 2
    THEN [pes_packets |-> pes_packets, item |-> Some(Err("PacketTooShort")),
          sub_packet |-> None]
    ELSE SubtitlesInternal_parse(
             while_wanted(pes_packets, first.substream_id,
                          (first.data[1] * 256) + first.data[2], first.data),
             (first.data[1] * 256) + first.data[2],
             Unwrap(first.pts))

\* SubtitlesInternal::next on the items pes_packets still has: the items
\* left, the Option it returns, and the buffer it passes to subtitle(), None
\* when it passes none
SubtitlesInternal_next(pes_packets) ==
    IF pes_packets = <<>> THEN [pes_packets |-> <<>>, item |-> None, sub_packet |-> None]
    ELSE IF ~IsOk(Head(pes_packets))
    THEN [pes_packets |-> Tail(pes_packets), item |-> Some(Head(pes_packets)),
          sub_packet |-> None]
    ELSE SubtitlesInternal_first(OkVal(Head(pes_packets)), Tail(pes_packets))

\* The payloads: too short for a size; sizes 1, 3 and 5 with 0 or 1 byte
\* after them; bytes that continue a subpicture
Payloads == {<<0>>, <<0, 1>>, <<0, 3, 11>>, <<0, 5, 12>>, <<21>>, <<22, 23>>}

\* The items of PesPackets: packets of the substreams 0x20 and 0x21 with a
\* PTS, a packet without PTS, the error of a truncated packet
PesItems ==
    {Ok(PesPacket(id, Some(0), d)) : id \in {32, 33}, d \in Payloads}
    \cup {Ok(PesPacket(32, None, <<0, 3, 11>>)), Err("PESPacket(IncompleteInput)")}

RECURSIVE PesItemSeqs(_)
PesItemSeqs(n) ==
    IF n = 0 THEN {<<>>}
    ELSE PesItemSeqs(n - 1) \cup
         {Append(q, i) : q \in {r \in PesItemSeqs(n - 1) : Len(r) = n - 1}, i \in PesItems}

InitInternal ==
    /\ stream = <<>>
    /\ closed = FALSE
    /\ dto = DtoIdle
    /\ dti = DtiIdle
    /\ subs = SubsIdle
    /\ pes = PesIdle
    /\ rle = RleIdle
    /\ \E items \in PesItemSeqs(MaxPesItems) :
          call = [op |-> "SubtitlesInternal::next", args |-> [pes_packets |-> items],
                  pes_packets |-> items, out |-> <<>>, result |-> Pending]

\* SubtitlesInternal::next, called until it returns None; out keeps, for
\* each call, the items PesPackets had, what the call returned and the
\* buffer it passed to subtitle()
Call_SubtitlesInternal_next ==
    /\ call.op = "SubtitlesInternal::next"
    /\ IF call.out = <<>> THEN TRUE ELSE IsSome(call.out[Len(call.out)].item)
    /\ LET returned(r) ==
               [call EXCEPT !.pes_packets = r.pes_packets,
                            !.out = Append(@, [before |-> call.pes_packets,
                                               item |-> r.item,
                                               sub_packet |-> r.sub_packet]),
                            !.result = Ok(r.item)]
       IN call' = returned(SubtitlesInternal_next(call.pes_packets))
    /\ UNCHANGED <<stream, closed, dto, dti, subs, pes, rle>>

NextInternal == Call_SubtitlesInternal_next
SpecInternal == InitInternal /\ [][NextInternal]_vars

\* the packets of items that parsed, in their order
PacketsOf(items) ==
    [k \in 1..Len(SelectSeq(items, IsOk)) |-> OkVal(SelectSeq(items, IsOk)[k])]

\* the payloads of the packets of substream id, one after the other
RECURSIVE PayloadsOf(_, _)
PayloadsOf(packets, id) ==
    IF packets = <<>> THEN <<>>
    ELSE (IF Head(packets).substream_id = id THEN Head(packets).data ELSE <<>>)
         \o PayloadsOf(Tail(packets), id)

\* total_size: the big-endian 16-bit value at the start of a payload
TotalSize(data) == (data[1] * 256) + data[2]

\* C34: the buffer SubtitlesInternal::next passes to subtitle() has exactly
\* total_size bytes, the first total_size bytes of the payloads, in their
\* order, of the first packet and of the following packets of its
\* substream (packets of another substream give no byte); and when the
\* packets end before total_size bytes are gathered it passes no buffer and
\* returns no subtitle.
C34_BufferIsTotalSizeOfSameSubstream ==
    call.op = "SubtitlesInternal::next" =>
       \A k \in DOMAIN call.out :
          LET before == call.out[k].before
              first == OkVal(before[1])
              all == PayloadsOf(PacketsOf(before), first.substream_id)
          IN /\ IsSome(call.out[k].sub_packet) =>
                   /\ Len(Unwrap(call.out[k].sub_packet)) = TotalSize(first.data)
                   /\ Len(all) >= TotalSize(first.data)
                   /\ Unwrap(call.out[k].sub_packet) = Take(all, TotalSize(first.data))
                   /\ call.out[k].item
                         = Some(subtitle(Take(all, TotalSize(first.data)), Unwrap(first.pts)))
             /\ (/\ before # <<>>
                 /\ \A j \in DOMAIN before : IsOk(before[j])
                 /\ IsSome(first.pts)
                 /\ Len(first.data) >= 2
                 /\ Len(all) < TotalSize(first.data)) =>
                   /\ IsNone(call.out[k].sub_packet)
                   /\ IsNone(call.out[k].item)

\* C34 witness: a first packet of substream 0x20 that declares 5 bytes and
\* holds 3, a packet of substream 0x21, and a packet of substream 0x20 with
\* 3 bytes: the buffer passed is the 3 bytes and the first 2 of the last
\* packet.
C34_Witness ==
    /\ call.op = "SubtitlesInternal::next"
    /\ Len(call.out) >= 1
    /\ call.args.pes_packets = <<Ok(PesPacket(32, Some(0), <<0, 5, 12>>)),
                                 Ok(PesPacket(33, Some(0), <<22, 23>>)),
                                 Ok(PesPacket(32, Some(0), <<0, 3, 11>>))>>
    /\ call.out[1].sub_packet = Some(<<0, 5, 12, 0, 3>>)

----------------------------------------------------------------------------
(* pgs/segment.rs: read_header on the bytes the reader still has *)

\* Length of the segment Header
HEADER_LEN == 13

\* Segment start Magic Number
MAGIC_NUMBER == <<80, 71>>

\* SegmentTypeCode::try_from
SegmentTypeCode_try_from(value) ==
    CASE value = 20 -> Ok("Pds")
      [] value = 21 -> Ok("Ods")
      [] value = 22 -> Ok("Pcs")
      [] value = 23 -> Ok("Wds")
      [] value = 128 -> Ok("End")
      [] OTHER -> Err("SegmentInvalidTypeCode")

\* parse_segment_header
parse_segment_header(buffer) ==
    IF SubSeq(buffer, 1, 2) # MAGIC_NUMBER THEN Err("SegmentPGMissing")
    ELSE IF ~IsOk(SegmentTypeCode_try_from(buffer[11])) THEN SegmentTypeCode_try_from(buffer[11])
    ELSE Ok(Some([pts |-> (((((buffer[3] * 256) + buffer[4]) * 256) + buffer[5]) * 256)
                             + buffer[6],
                  type_code |-> OkVal(SegmentTypeCode_try_from(buffer[11])),
                  size |-> (buffer[12] * 256) + buffer[13]]))

\* read_header on a reader that holds bytes. read_exact fails with
\* UnexpectedEof when the reader ends before HEADER_LEN bytes, and with the
\* error of the device when io_fails.
read_header(bytes, io_fails) ==
    IF io_fails THEN Err("SegmentFailReadHeader")
    ELSE IF Len(bytes) < HEADER_LEN THEN Ok(None)
    ELSE parse_segment_header(SubSeq(bytes, 1, HEADER_LEN))

\* Headers: the magic number or 50 00, a pts of 450 or 90, a type code (00
\* is none), a size of 0 or 7; followed by 2 bytes of the body
HeaderBytes ==
    {<<80, m, 0, 0, p \div 256, p % 256, 0, 0, 0, 0, t, 0, n, 1, 2>> :
        m \in {71, 0}, p \in {450, 90}, t \in {20, 21, 22, 23, 128, 0}, n \in {0, 7}}

\* what the reader holds: a header cut after any number of bytes
ReaderBytes == UNION {{SubSeq(h, 1, k) : k \in 0..Len(h)} : h \in HeaderBytes}

InitHeader ==
    /\ stream = <<>>
    /\ closed = FALSE
    /\ dto = DtoIdle
    /\ dti = DtiIdle
    /\ subs = SubsIdle
    /\ pes = PesIdle
    /\ rle = RleIdle
    /\ \E b \in ReaderBytes, f \in BOOLEAN :
          call = [op |-> "read_header", args |-> [bytes |-> b, io_fails |-> f],
                  result |-> Pending]

Call_read_header ==
    /\ call.op = "read_header"
    /\ call.result.tag = "Pending"
    /\ call' = [call EXCEPT !.result = read_header(call.args.bytes, call.args.io_fails)]
    /\ UNCHANGED <<stream, closed, dto, dti, subs, pes, rle>>

NextHeader == Call_read_header
SpecHeader == InitHeader /\ [][NextHeader]_vars

\* C35: read_header returns None only when the stream ends at a segment
\* boundary, no byte of a header left; a stream that ends after 1 to 12
\* bytes of a header gives the error SegmentFailReadHeader.
C35_NoneOnlyAtBoundary ==
    (call.op = "read_header" /\ call.result.tag # "Pending") =>
       /\ call.result = Ok(None) => Len(call.args.bytes) = 0
       /\ Len(call.args.bytes) \in 1..(HEADER_LEN - 1) =>
             call.result = Err("SegmentFailReadHeader")

----------------------------------------------------------------------------
(* vobsub/decoder.rs: from_data for (TimeSpan, VobSubIndexedImage) over
   start times and end times *)

\* start times and end times, in milliseconds
DataStartTimes == {0, 1, 4999, 5000, 5001, 7500, 60000}
DataEndTimes == {None} \union {Some(e) : e \in {0, 5000, 61000}}

InitFromData ==
    /\ stream = <<>>
    /\ closed = FALSE
    /\ dto = DtoIdle
    /\ dti = DtiIdle
    /\ subs = SubsIdle
    /\ pes = PesIdle
    /\ rle = RleIdle
    /\ \E a \in RleImageArgs, s \in DataStartTimes, e \in DataEndTimes, f \in BOOLEAN :
          /\ a.rle_offsets = <<4, 5>>
          /\ call = [op |-> "from_data of times",
                     args |-> [raw_data |-> a.raw_data, area |-> a.area,
                               rle_offsets |-> a.rle_offsets, end |-> a.end,
                               start_time |-> s, end_time |-> e, force |-> f],
                     result |-> Pending]

\* from_data on a start time, an end time and the VobSubRleImage of the
\* subpicture
Call_from_data_of_times ==
    /\ call.op = "from_data of times"
    /\ call.result.tag = "Pending"
    /\ LET image_data == VobSubRleImageData_new(call.args.raw_data, call.args.rle_offsets,
                                                call.args.end)
       IN call' = [call EXCEPT !.result =
                     IF ~IsOk(image_data) THEN image_data
                     ELSE from_data(call.args.start_time, call.args.end_time,
                                    call.args.force,
                                    VobSubRleImage_new(call.args.area, CmdPalette1.value,
                                                       CmdAlpha1.value, OkVal(image_data)))]
    /\ UNCHANGED <<stream, closed, dto, dti, subs, pes, rle>>

NextFromData == Call_from_data_of_times
SpecFromData == InitFromData /\ [][NextFromData]_vars

\* C36: from_data on a start time s and no end time gives a TimeSpan that
\* ends at s + 5 s, so its start is at most its end, for every s.
C36_MissingEndIsStartPlusLength ==
    (call.op = "from_data of times" /\ IsOk(call.result) /\ IsNone(call.args.end_time)) =>
       /\ OkVal(call.result).times.start = call.args.start_time
       /\ OkVal(call.result).times.end = call.args.start_time + DEFAULT_SUBTITLE_LENGTH
       /\ OkVal(call.result).times.start <= OkVal(call.result).times.end

----------------------------------------------------------------------------
(* pgs/decoder.rs: DecodeTimeOnly and DecodeTimeImage, each with its own
   reader, on the same .sup stream *)

\* segments of the stream that the two decoders read
MaxSharedSegs == 4

NextBoth ==
    \/ TO_Call /\ Len(stream') <= MaxSharedSegs
    \/ TO_End /\ Len(stream') <= MaxSharedSegs
    \/ TO_Skip /\ Len(stream') <= MaxSharedSegs
    \/ TO_Eof /\ Len(stream') <= MaxSharedSegs
    \/ TI_Call /\ Len(stream') <= MaxSharedSegs
    \/ TI_Pds /\ Len(stream') <= MaxSharedSegs
    \/ TI_Ods /\ Len(stream') <= MaxSharedSegs
    \/ TI_End /\ Len(stream') <= MaxSharedSegs
    \/ TI_Skip /\ Len(stream') <= MaxSharedSegs
    \/ TI_Eof /\ Len(stream') <= MaxSharedSegs
SpecBoth == InitPgs /\ [][NextBoth]_vars

\* the TimeSpans of the items DecodeTimeImage has yielded, all of them Ok
TimesOfTimeImage == [i \in 1..Len(dti.out) |-> OkVal(dti.out[i]).times]
\* the items DecodeTimeOnly has yielded
TimesOfTimeOnly == [i \in 1..Len(dto.out) |-> OkVal(dto.out[i])]

OnlyOkItems == \A i \in 1..Len(dti.out) : IsOk(dti.out[i])

\* DecodeTimeImage has stopped: its iterator returned None, or parse_next
\* panicked and the thread unwound
TimeImageStopped == dti.pc \in {"ended", "panic"}

\* C37: on the same stream, when DecodeTimeImage yields only Ok items, the
\* TimeSpans of its items are the TimeSpans DecodeTimeOnly yields: item by
\* item while the two iterate, and the same count once both have stopped.
C37_TimeImageAgreesWithTimeOnly ==
    OnlyOkItems =>
       /\ \A i \in 1..Len(dti.out) :
             i <= Len(dto.out) => TimesOfTimeOnly[i] = TimesOfTimeImage[i]
       /\ \A i \in 1..Len(dto.out) : IsOk(dto.out[i])
       /\ (TimeImageStopped /\ dto.pc = "ended") => TimesOfTimeImage = TimesOfTimeOnly

\* The agreement on the streams on which parse_next does not panic
AgreesWhenBothEnded ==
    (OnlyOkItems /\ dti.pc = "ended" /\ dto.pc = "ended") =>
       TimesOfTimeImage = TimesOfTimeOnly

====
